---- MODULE Spec2Model ----
(***************************************************************************)
(* pgCarpenter: base backups of a PostgreSQL data directory in an object   *)
(* store.  The model covers the command engine (create-backup,             *)
(* delete-backup, restore-backup, list-backups), its worker pool fed by an *)
(* unbuffered channel, and the storage backend the commands talk to.       *)
(*                                                                         *)
(* Strings (object keys, paths, names) are sequences of tokens: "b1/base/1"*)
(* is <<"b1", "/", "base", "/", "1">>, and the extension ".lz4" is a token *)
(* of its own, so the prefix and suffix operations of the code are the     *)
(* sequence operations below.                                              *)
(***************************************************************************)
EXTENDS Naturals, Integers, Sequences, FiniteSets, TLC

\* ------------------------------------------------------------------ bounds
\* --workers ranges over 1..MaxWorkers
MaxWorkers == 2
\* the entries of one page of a listing (MaxKeys of ListObjectsV2)
PageSize == 2
\* at most so many os.Mkdir of createRequiredDirs fail in a run
MaxMkdirFailures == 1
\* at most so many requests and file operations of the restore workers fail
\* in a run
MaxRestoreFailures == 2
\* archive-wal and restore-wal commands run one after the other
MaxWalRuns == 2
\* requests of list-backups for single entries that may fail in one run
MaxListFailures == 1

\* ----------------------------------------------------------------- strings
Slash == "/"
\* lz4.Extension of github.com/pierrec/lz4
LZ4Extension == <<".lz4">>

HasPrefix(s, p) == Len(p) <= Len(s) /\ SubSeq(s, 1, Len(p)) = p
HasSuffix(s, p) == Len(p) <= Len(s) /\ SubSeq(s, Len(s) - Len(p) + 1, Len(s)) = p
TrimPrefix(s, p) == IF HasPrefix(s, p) THEN SubSeq(s, Len(p) + 1, Len(s)) ELSE s
TrimSuffix(s, p) == IF HasSuffix(s, p) THEN SubSeq(s, 1, Len(s) - Len(p)) ELSE s

\* filepath.Clean, as far as the paths of the model need it: trailing
\* separators are dropped.
RECURSIVE Clean(_)
Clean(s) ==
  IF Len(s) > 1 /\ s[Len(s)] = Slash THEN Clean(SubSeq(s, 1, Len(s) - 1)) ELSE s

\* filepath.Join: empty elements are ignored, the result is Cleaned.
Join(a, b) ==
  IF a = <<>> THEN Clean(b)
  ELSE IF b = <<>> THEN Clean(a)
  ELSE Clean(a \o <<Slash>> \o b)

\* --------------------------------------------------------------- namespace
walFolder == <<"WAL">>
successfullyCompletedFolder == <<"successful">>
latestKey == <<"LATEST">>

backupKey(name) == name \o <<Slash>>
getSuccessfulMarker(backupName) == Join(successfullyCompletedFolder, backupName)

\* the backup names the commands are run with
Names == {<<"b0">>, <<"b1">>, <<"b2">>}

\* ------------------------------------------------------------------- codec
\* util.Compress / util.Decompress on file contents: an lz4 frame is the
\* content behind a frame header; only a frame decompresses.
Compress(content) == <<"lz4">> \o content
IsFrame(body) == body # <<>> /\ body[1] = "lz4"
\* a Decompress that copies the frame as it is
DecompressNot(body) == body
Decompress(body) == Tail(body)
\* what Decompress leaves at outPath when the input is no lz4 frame: the file
\* os.Create made, empty
Garbled == <<>>

\* util.IsCompressed: the key ends with the lz4 extension (the value of the
\* slice expression for a path at least as long as the extension)
IsCompressed(key) == HasSuffix(key, LZ4Extension)

\* the length in bytes of the string a token sequence stands for; the tokens
\* not named here are single characters
TokenLen(tok) ==
  CASE tok = ".lz4" -> 4 [] tok = ".history" -> 8 [] tok = "LATEST" -> 6
    [] tok = "WAL" -> 3 [] tok \in {"b0", "b1", "b2"} -> 2
    [] tok = "backup_label" -> 12 [] tok = "base" -> 4 [] tok = "pg_xlog" -> 7
    [] tok = "successful" -> 10 [] tok = "tablespace_map" -> 14
    [] tok = "pgdata" -> 6 [] OTHER -> 1
RECURSIVE ByteLen(_)
ByteLen(s) == IF s = <<>> THEN 0 ELSE TokenLen(Head(s)) + ByteLen(Tail(s))
\* util.IsCompressed, path[len(path)-len(lz4.Extension):]: the slice
\* expression panics (slice bounds out of range) when the path is shorter
\* than the extension
IsCompressedPanics(path) == ByteLen(path) < ByteLen(LZ4Extension)

\* ----------------------------------------------------------------- storage
\* An object is [body, meta]; meta is the user metadata of the object.
\* strconv.FormatInt(n, 10) and strconv.Atoi: the decimal digits of a number
Digit == <<"0", "1", "2", "3", "4", "5", "6", "7", "8", "9">>
RECURSIVE FormatNat(_)
FormatNat(n) ==
  IF n < 10 THEN <<Digit[n + 1]>>
  ELSE FormatNat(n \div 10) \o <<Digit[(n % 10) + 1]>>
FormatInt(n) == IF n < 0 THEN <<"-">> \o FormatNat(0 - n) ELSE FormatNat(n)
DigitValue(c) == CHOOSE v \in 0..9 : Digit[v + 1] = c
RECURSIVE ParseNat(_)
ParseNat(s) ==
  IF s = <<>> THEN 0
  ELSE 10 * ParseNat(SubSeq(s, 1, Len(s) - 1)) + DigitValue(s[Len(s)])
Atoi(s) == IF s[1] = "-" THEN 0 - ParseNat(Tail(s)) ELSE ParseNat(s)

generateS3ObjectMetadata(mtime, t) ==
  IF mtime # 0 THEN [Upload_time |-> FormatInt(t), Modified_time |-> FormatInt(mtime)]
  ELSE [Upload_time |-> FormatInt(t)]

Put(st, key, body, mtime, t) ==
  (key :> [body |-> body, meta |-> generateS3ObjectMetadata(mtime, t)]) @@ st

\* PutString stores the body with the current time as modified-time
PutString(st, key, body, t) == Put(st, key, body, t, t)

\* GetString / HeadObject succeed when the object exists and the transport
\* does not fail
GetOK(st, key, fail) == key \in DOMAIN st /\ ~fail

GetLastModifiedTime(st, key) ==
  IF "Modified_time" \in DOMAIN st[key].meta THEN Atoi(st[key].meta.Modified_time)
  ELSE 0

Delete(st, key) == [k \in DOMAIN st \ {key} |-> st[k]]

Has(st, key) == key \in DOMAIN st
\* LATEST holds the name
LatestIs(st, name) == Has(st, latestKey) /\ st[latestKey].body = name

EmptyStore == [k \in {} |-> [body |-> <<>>, meta |-> [Upload_time |-> FormatInt(0)]]]

\* ---------------------------------------------------------- data directory
\* The cluster's data directory, keyed by the path relative to it.
DirEntry == [dir |-> TRUE, size |-> 0, mt |-> 0, c |-> <<>>]
File(size, mt, c) == [dir |-> FALSE, size |-> size, mt |-> mt, c |-> c]

P_base == <<"base">>
P_f1 == <<"base", "/", "1">>
P_f2 == <<"base", "/", "2">>
P_xlog == <<"pg_xlog">>
P_wal == <<"pg_xlog", "/", "w">>
P_z == <<"t", ".lz4">>

DataDirectory ==
  (P_base :> DirEntry) @@ (P_f1 :> File(2, 3, <<"c1">>)) @@
  (P_f2 :> File(3, 4, <<"c2">>)) @@ (P_xlog :> DirEntry) @@
  (P_wal :> File(3, 5, <<"w">>)) @@ (P_z :> File(1, 6, <<"c3">>))

\* the order in which filepath.Walk visits the entries (lexical, depth first)
WalkOrder == <<P_base, P_f1, P_f2, P_xlog, P_wal, P_z>>

\* files PostgreSQL may remove while an online backup runs
Volatile == {P_f1}

\* --compress-threshold values the commands are run with
Thresholds == {1, 2}

prefixesNotToBackup == {<<"pg_xlog">>, <<"postmaster.pid">>, <<"pg_replslot">>}
\* a filter that lets every path through
ignoreNothing(path) == FALSE
ignoreFile(path) == \E d \in prefixesNotToBackup : HasPrefix(path, d)

\* ------------------------------------------------------------------- state
VARIABLES
  store,   \* the bucket: key -> object
  fs,      \* the data directory of the cluster being backed up
  rd,      \* the data directory restore-backup writes into
  tmp,     \* temporary files left in tmpDir
  db,      \* PostgreSQL: the backup session
  cmd,     \* the command being run
  pc,      \* where the command's main goroutine is
  wk,      \* the worker goroutines
  closed,  \* the work channel was closed
  todo,    \* the items the producer has still to visit
  exit,    \* exit status of the command (-1 while it runs)
  now,     \* time.Now().Unix()
  runs,    \* commands started since the initial bucket (one is run)
  ev,      \* what happened in the current command (history)
  puts,    \* keys the workers of the current command have Put (history)
  failed,  \* keys whose Delete failed in a worker of the current command (history)
  gets,    \* the Gets of the restore workers, each with what made the worker
           \* restore the file (history)
  rd0,     \* the restored data directory as it was before the command (history)
  nfail,   \* the requests and file operations of the restore workers that failed
  pre,     \* the bucket when the current command started (history)
  stale,   \* a delete-backup ended leaving LATEST on the backup it deleted
  clean,   \* no storage, SQL or file operation has failed so far (history)
  out,     \* what list-backups printed and returned
  other    \* a second create-backup process run against the same bucket

vars == <<store, fs, rd, tmp, db, cmd, pc, wk, closed, todo, exit, now, runs,
          ev, puts, failed, gets, pre, rd0, nfail, stale, clean, out, other>>

Workers == 1..MaxWorkers
Off == [st |-> "off", item |-> <<>>]
Recv == [st |-> "recv", item |-> <<>>]
Busy(item) == [st |-> "busy", item |-> item]
Gone == [st |-> "done", item |-> <<>>]

NoCmd == [op |-> "none", name |-> <<>>, nW |-> 1, thr |-> 1, excl |-> FALSE,
          modOnly |-> FALSE]
NoDb == [backup |-> FALSE, conn |-> "none", map |-> <<>>, stopOn |-> "none"]

\* ------------------------------------------------------------ list-backups
\* the position of the first separator of s, 0 when it has none
RECURSIVE FirstSlash(_, _)
FirstSlash(s, i) ==
  IF i > Len(s) THEN 0 ELSE IF s[i] = Slash THEN i ELSE FirstSlash(s, i + 1)

\* ListFolder: the common prefixes below path (Delimiter "/")
ListFolder(st, path) ==
  {path \o SubSeq(TrimPrefix(k, path), 1, FirstSlash(TrimPrefix(k, path), 1)) :
     k \in {q \in DOMAIN st : HasPrefix(q, path) /\ FirstSlash(TrimPrefix(q, path), 1) > 0}}

formatStatus(success) == IF success THEN "" ELSE "(incomplete!) "

\* the rows of listBackups, one per root prefix that is neither the folder of
\* the successful markers nor the WAL folder (before they are sorted)
ListRows(st) ==
  {[name |-> TrimSuffix(k, <<Slash>>),
    timestamp |-> IF Has(st, k) THEN GetLastModifiedTime(st, k) ELSE 0,
    status |-> formatStatus(Has(st, getSuccessfulMarker(TrimSuffix(k, <<Slash>>)))),
    endLine |-> IF Has(st, latestKey) /\ st[latestKey].body = TrimSuffix(k, <<Slash>>)
                THEN "(LATEST)" ELSE ""] :
     k \in {q \in ListFolder(st, <<>>) :
              TrimSuffix(q, <<Slash>>) \notin {successfullyCompletedFolder, walFolder}}}

\* no second process
NoOther == [pc |-> "off", exit |-> -1, passed |-> FALSE, clean |-> TRUE, wrote |-> {}]

\* list-backups has not run
NoOut == [rows |-> <<>>, code |-> -1,
          failures |-> [list |-> FALSE, latest |-> FALSE, head |-> {}, mark |-> {}]]

\* listBackups, the loop over the keys of ListFolder(""): one backupEntry per
\* key that is neither the folder of the successful markers nor the WAL
\* folder; the timestamp stays 0 when GetLastModifiedTime fails (headFail)
\* and successful is false when GetString of the marker fails (markFail)
backupEntries(st, keys, headFail, markFail) ==
  {[name |-> TrimSuffix(k, <<Slash>>),
    timestamp |-> IF Has(st, k) /\ k \notin headFail
                  THEN GetLastModifiedTime(st, k) ELSE 0,
    successful |-> Has(st, getSuccessfulMarker(TrimSuffix(k, <<Slash>>)))
                     /\ k \notin markFail] :
     k \in {q \in keys :
              TrimSuffix(q, <<Slash>>) \notin {successfullyCompletedFolder, walFolder}}}

\* sort.Slice by timestamp: the arrangements in which no entry comes before
\* one with a smaller timestamp (the sort is not stable)
sortByTimestamp(entries) ==
  {s \in [1..Cardinality(entries) -> entries] :
     /\ \A i, j \in DOMAIN s : i # j => s[i] # s[j]
     /\ \A i, j \in DOMAIN s : i < j => ~(s[j].timestamp < s[i].timestamp)}

\* the historical rule: the entry that sorts last is tagged
endLineOfLast(backups, i, latest) ==
  IF i = Len(backups) THEN "(LATEST)" ELSE ""
\* listBackups, the end of a row: tagged when the name is the body of LATEST
endLine(backups, i, latest) ==
  IF backups[i].name = latest THEN "(LATEST)" ELSE ""

\* the header line and then one line per entry
printed(backups, latest) ==
  <<[name |-> <<"Name">>, timestamp |-> 0, status |-> "", endLine |-> ""]>> \o
  [i \in DOMAIN backups |->
     [name |-> backups[i].name, timestamp |-> backups[i].timestamp,
      status |-> formatStatus(backups[i].successful),
      endLine |-> endLine(backups, i, latest)]]

\* the tokens of the keys, in the byte order of the strings they stand for
Alphabet ==
  <<".history", ".lz4", "/", "1", "2", "LATEST", "WAL", "b0", "b1", "b2", "backup_label", "base",
    "pg_xlog", "successful", "t", "tablespace_map", "w">>
Rank(tok) == CHOOSE i \in 1..Len(Alphabet) : Alphabet[i] = tok

\* the order ListObjectsV2 returns keys in
RECURSIVE KeyLess(_, _)
KeyLess(a, b) ==
  IF a = <<>> THEN b # <<>>
  ELSE IF b = <<>> THEN FALSE
  ELSE IF a[1] = b[1] THEN KeyLess(Tail(a), Tail(b))
  ELSE Rank(a[1]) < Rank(b[1])

RECURSIVE SetToSeq(_)
SetToSeq(S) ==
  IF S = {} THEN <<>>
  ELSE LET x == CHOOSE y \in S : TRUE IN <<x>> \o SetToSeq(S \ {x})

SortKeys(S) == SortSeq(SetToSeq(S), KeyLess)

\* the objects directly below path (Contents of a listing with Delimiter "/")
Contents(st, path) ==
  {k \in DOMAIN st : HasPrefix(k, path) /\ FirstSlash(TrimPrefix(k, path), 1) = 0}

\* WalkFolder: the keys sent on keysC, in the order they are sent. A listing
\* comes in pages of PageSize entries (objects and common prefixes together,
\* in key order); of each page the objects are sent first, path itself
\* skipped, then each child folder of the page is walked.
RECURSIVE WalkFolder(_, _)
RECURSIVE WalkPages(_, _, _)
RECURSIVE WalkChildren(_, _)
WalkChildren(st, prefixes) ==
  IF prefixes = <<>> THEN <<>>
  ELSE WalkFolder(st, Head(prefixes)) \o WalkChildren(st, Tail(prefixes))
WalkPages(st, path, entries) ==
  IF entries = <<>> THEN <<>>
  ELSE LET n == IF Len(entries) < PageSize THEN Len(entries) ELSE PageSize
           page == SubSeq(entries, 1, n)
           isObj(e) == e \in Contents(st, path)
       IN SelectSeq(page, LAMBDA e : isObj(e) /\ e # path)
            \o WalkChildren(st, SelectSeq(page, LAMBDA e : ~isObj(e)))
            \o WalkPages(st, path, SubSeq(entries, n + 1, Len(entries)))
\* a WalkFolder that ignores the continuation token: the first page only
WalkFolderFirstPage(st, path) ==
  LET entries == SortKeys(Contents(st, path) \cup ListFolder(st, path))
  IN WalkPages(st, path,
               SubSeq(entries, 1, IF Len(entries) < PageSize THEN Len(entries) ELSE PageSize))
\* a WalkFolder that does not descend into the child folders
WalkFolderFlat(st, path) == SortKeys(Contents(st, path) \ {path})
WalkFolder(st, path) ==
  WalkPages(st, path, SortKeys(Contents(st, path) \cup ListFolder(st, path)))

\* ----------------------------------------------------------- initial buckets
\* What a create-backup in which nothing fails leaves in the bucket st: the
\* folder marker, one object per file of the data directory that is neither a
\* directory nor ignored, backup_label, the successful marker, and LATEST.
FileKey(name, p, thr) ==
  IF DataDirectory[p].size > thr THEN Join(name, p) \o LZ4Extension ELSE Join(name, p)
FileBody(p, thr) ==
  IF DataDirectory[p].size > thr THEN Compress(DataDirectory[p].c) ELSE DataDirectory[p].c

RECURSIVE Uploaded(_, _, _, _, _)
Uploaded(st, name, ps, thr, t) ==
  IF ps = {} THEN st
  ELSE LET p == CHOOSE q \in ps : TRUE IN
         Uploaded(Put(st, FileKey(name, p, thr), FileBody(p, thr), DataDirectory[p].mt, t),
                  name, ps \ {p}, thr, t)

BackedUp == {p \in DOMAIN DataDirectory : ~DataDirectory[p].dir /\ ~ignoreFile(p)}

FilesOf(st, name, thr, t) ==
  Uploaded(PutString(st, backupKey(name), <<>>, t), name, BackedUp, thr, t)

BackupOf(st, name, thr, t) ==
  PutString(
    PutString(
      PutString(FilesOf(st, name, thr, t),
                name \o <<Slash, "backup_label">>, <<"label">>, t),
      getSuccessfulMarker(name), <<>>, t),
    latestKey, name, t)

\* the threshold the backups of the initial buckets were taken with: the
\* largest one
SeedThreshold == CHOOSE t \in Thresholds : \A u \in Thresholds : u <= t

B0 == <<"b0">>
B1 == <<"b1">>
B2 == <<"b2">>
\* b0 complete
Seed1 == BackupOf(EmptyStore, B0, SeedThreshold, 1)
\* b0 and b1 complete, LATEST on b1
Seed2 == BackupOf(Seed1, B1, SeedThreshold, 2)
\* b0 complete, b1 left incomplete by a create-backup whose stopBackup failed
Seed3 == FilesOf(Seed1, B1, SeedThreshold, 2)
\* b1 complete
Seed4 == BackupOf(EmptyStore, B1, SeedThreshold, 1)
\* b1 and then b0 complete, LATEST on b0
Seed5 == BackupOf(Seed4, B0, SeedThreshold, 2)
\* b1, b0 and then b2 complete, LATEST on b2
Seed6 == BackupOf(Seed5, B2, SeedThreshold, 3)
\* b0, b1 and then b2 complete, LATEST on b2
Seed7 == BackupOf(Seed2, B2, SeedThreshold, 3)

\* the initial buckets, each with the time of its last command
Seeds ==
  {<<EmptyStore, 0>>, <<Seed1, 1>>, <<Seed2, 2>>, <<Seed3, 2>>, <<Seed4, 1>>,
   <<Seed5, 2>>, <<Seed6, 3>>, <<Seed7, 3>>}

\* the directory restore-backup restores into, empty
EmptyDir == [p \in {} |-> [dir |-> FALSE, mt |-> 0, c |-> <<>>]]

\* no command has run: the bucket is one of seeds and the directory to restore
\* into one of dirs
InitOf(seeds, dirs, cluster) ==
  /\ \E s \in seeds : store = s[1] /\ now = s[2] /\ pre = s[1]
  /\ \E d \in dirs : rd = d /\ rd0 = d
  /\ fs = cluster
  /\ tmp = {}
  /\ db = NoDb
  /\ cmd = NoCmd
  /\ pc = "done"
  /\ wk = [i \in Workers |-> Off]
  /\ closed = FALSE
  /\ todo = <<>>
  /\ exit = -1
  /\ runs = 0
  /\ ev = {}
  /\ puts = {}
  /\ failed = {}
  /\ gets = {}
  /\ nfail = 0
  /\ stale = FALSE
  /\ clean = TRUE
  /\ out = NoOut
  /\ other = NoOther

InitWith(seeds, dirs) == InitOf(seeds, dirs, DataDirectory)

Init == InitWith(Seeds, {EmptyDir})

\* ------------------------------------------------------- command skeleton
\* a command starts: the process is created
Begin(c, first) ==
  /\ pc = "done"
  /\ runs = 0
  /\ cmd' = c
  /\ pc' = first
  /\ runs' = runs + 1
  /\ now' = now + 1
  /\ exit' = -1
  /\ ev' = {}
  /\ puts' = {}
  /\ failed' = {}
  /\ gets' = {}
  /\ pre' = store
  /\ rd0' = rd
  /\ UNCHANGED <<store, fs, rd, tmp, db, wk, closed, todo, nfail, stale, clean, out, other>>

\* the process ends with the exit status code: every goroutine ends with it
End(code) ==
  /\ pc' = "done"
  /\ exit' = code
  /\ wk' = [i \in Workers |-> Off]
  /\ closed' = FALSE
  /\ todo' = <<>>

\* the pool is spawned: wg.Add(nWorkers), go worker(...)
Spawned == [i \in Workers |-> IF i <= cmd.nW THEN Recv ELSE Off]

\* the item is handed to a worker blocked on the unbuffered channel
Send(item) ==
  \E i \in Workers :
    /\ wk[i].st = "recv"
    /\ wk' = [wk EXCEPT ![i] = Busy(item)]

\* a worker finds the channel closed and returns (wg.Done)
WorkerReturn ==
  \E i \in Workers :
    /\ wk[i].st = "recv"
    /\ closed
    /\ wk' = [wk EXCEPT ![i] = Gone]
    /\ UNCHANGED <<store, fs, rd, tmp, db, cmd, pc, closed, todo, exit, now,
                   runs, ev, puts, gets, failed, pre, rd0, nfail, stale, clean, out, other>>

\* a wait that returns at once
JoinedAtOnce == TRUE
Joined == \A i \in Workers : i <= cmd.nW => wk[i].st = "done"

\* ------------------------------------------------------------ create-backup
StartCreate ==
  \E name \in Names, nW \in Workers, thr \in Thresholds, excl \in BOOLEAN :
    Begin([op |-> "create", name |-> name, nW |-> nW, thr |-> thr,
           excl |-> excl, modOnly |-> FALSE], "c_check")

\* don't allow existing backups to be overwritten
CreateCheck ==
  /\ cmd.op = "create" /\ pc = "c_check"
  /\ \E fail \in BOOLEAN :
       /\ fail => backupKey(cmd.name) \in DOMAIN store
       /\ clean' = (clean /\ ~fail)
       /\ IF GetOK(store, backupKey(cmd.name), fail)
          THEN End(1) /\ ev' = ev \cup {"exists"}
          ELSE pc' = "c_mkdir" /\ UNCHANGED <<exit, wk, closed, todo, ev>>
  /\ UNCHANGED <<store, fs, rd, tmp, db, cmd, now, runs, puts, gets, failed, pre, rd0, nfail, stale, out, other>>

\* create the top level "folder"
CreateFolder ==
  /\ cmd.op = "create" /\ pc = "c_mkdir"
  /\ \E fail \in BOOLEAN :
       /\ clean' = (clean /\ ~fail)
       /\ IF fail
          THEN End(1) /\ UNCHANGED store
          ELSE /\ store' = PutString(store, backupKey(cmd.name), <<>>, now)
               /\ pc' = "c_start"
               /\ UNCHANGED <<exit, wk, closed, todo>>
  /\ UNCHANGED <<fs, rd, tmp, db, cmd, now, runs, ev, puts, gets, failed, pre, rd0, nfail, stale, out, other>>

\* a startBackup that closes the connection in either mode
connClosedAfterStart(excl) == "closed"
\* startBackup: the connection pg_start_backup was issued on is closed when
\* the backup is exclusive and kept open otherwise
connAfterStart(excl) == IF excl THEN "closed" ELSE "open"

\* startBackup, then uploadFiles spawns the pool and starts the walk
CreateStart ==
  /\ cmd.op = "create" /\ pc = "c_start"
  /\ \E fail \in BOOLEAN :
       /\ clean' = (clean /\ ~fail)
       /\ IF fail
          THEN /\ End(1)
               /\ ev' = ev \cup {"startFail"}
               /\ UNCHANGED db
          ELSE /\ db' = [backup |-> TRUE,
                         conn |-> connAfterStart(cmd.excl),
                         map |-> <<>>, stopOn |-> "none"]
               /\ ev' = ev \cup {"startOK"}
               /\ pc' = "c_walk"
               /\ wk' = Spawned
               /\ todo' = WalkOrder
               /\ UNCHANGED <<exit, closed>>
  /\ UNCHANGED <<store, fs, rd, tmp, cmd, now, runs, puts, gets, failed, pre, rd0, nfail, stale, out, other>>

\* the data directory after normalizeDataDirectoryPath: absolute, with a
\* trailing separator
pgDataDirectory == <<Slash, "pgdata", Slash>>

\* the path filepath.Walk hands to the callback for an entry of the tree
WalkPath(entry) == pgDataDirectory \o entry

\* the callback of uploadFiles: the path relative to the data directory
Relative(path) == TrimPrefix(path, pgDataDirectory)

\* one entry of filepath.Walk: the callback of uploadFiles
CreateWalk ==
  /\ cmd.op = "create" /\ pc = "c_walk" /\ todo # <<>>
  /\ LET e == Relative(WalkPath(Head(todo))) IN
       \/ \* the entry is skipped: it vanished, or it is not to be backed up
          /\ e \notin DOMAIN fs \/ ignoreFile(e)
          /\ todo' = Tail(todo)
          /\ UNCHANGED <<pc, wk, ev, clean>>
       \/ \* the path goes on the channel
          /\ e \in DOMAIN fs /\ ~ignoreFile(e)
          /\ Send(e)
          /\ todo' = Tail(todo)
          /\ UNCHANGED <<pc, ev, clean>>
       \/ \* lstat or readdir fails with something other than "not exist":
          \* uploadFiles returns, and createBackup goes on to stopBackup
          /\ e \in DOMAIN fs
          /\ ev' = ev \cup {"walkErr"}
          /\ clean' = FALSE
          /\ pc' = "c_stop"
          /\ UNCHANGED <<todo, wk>>
  /\ UNCHANGED <<store, fs, rd, tmp, db, cmd, closed, exit, now, runs, puts, gets,
                 failed, pre, rd0, nfail, stale, out, other>>

\* the walk is over: close(filesC)
CreateClose ==
  /\ cmd.op = "create" /\ pc = "c_walk" /\ todo = <<>>
  /\ closed' = TRUE
  /\ ev' = ev \cup {"closed"}
  /\ pc' = "c_join"
  /\ UNCHANGED <<store, fs, rd, tmp, db, cmd, wk, todo, exit, now, runs, puts, gets,
                 failed, pre, rd0, nfail, stale, clean, out, other>>

\* wg.Wait() returns
CreateJoin ==
  /\ cmd.op = "create" /\ pc = "c_join"
  /\ Joined
  /\ ev' = ev \cup {"joined"}
  /\ pc' = "c_stop"
  /\ UNCHANGED <<store, fs, rd, tmp, db, cmd, wk, closed, todo, exit, now,
                 runs, puts, gets, failed, pre, rd0, nfail, stale, clean, out, other>>

\* a worker that also compresses a file of exactly the threshold
compressAtThreshold(size, thr) == size >= thr
\* backupWorker: files larger than the threshold are compressed
mustCompress(size, thr) == size > thr

\* a backup worker handles the path it received
BackupWork ==
  \E i \in Workers :
    /\ cmd.op = "create" /\ wk[i].st = "busy"
    /\ LET p == wk[i].item
           key == Join(cmd.name, p)
           late == IF "stopIssued" \in ev THEN {"putAfterStop"} ELSE {}
       IN
         \/ \* os.Stat fails, or the path is a directory: next item
            /\ IF p \in DOMAIN fs THEN fs[p].dir ELSE TRUE
            /\ wk' = [wk EXCEPT ![i] = Recv]
            /\ UNCHANGED <<store, tmp, pc, exit, closed, todo, ev, puts, clean>>
         \/ \* util.Compress fails: the file is skipped; the temporary file
            \* stays unless it was ioutil.TempFile that failed
            /\ p \in DOMAIN fs /\ ~fs[p].dir /\ mustCompress(fs[p].size, cmd.thr)
            /\ wk' = [wk EXCEPT ![i] = Recv]
            /\ \E created \in BOOLEAN :
                 tmp' = IF created THEN tmp \cup {p} ELSE tmp
            /\ ev' = ev \cup {"compressErr"}
            /\ clean' = FALSE
            /\ UNCHANGED <<store, pc, exit, closed, todo, puts>>
         \/ \* the file is uploaded, compressed when larger than the threshold
            /\ p \in DOMAIN fs /\ ~fs[p].dir
            /\ LET big == mustCompress(fs[p].size, cmd.thr)
                   k == IF big THEN key \o LZ4Extension ELSE key
                   body == IF big THEN Compress(fs[p].c) ELSE fs[p].c
               IN
                 \/ /\ store' = Put(store, k, body, fs[p].mt, now)
                    /\ puts' = puts \cup {k}
                    /\ ev' = ev \cup late
                    /\ wk' = [wk EXCEPT ![i] = Recv]
                    /\ UNCHANGED <<tmp, pc, exit, closed, todo, clean>>
                 \/ \* Put fails: logger.Fatal ends the process
                    /\ End(1)
                    /\ ev' = ev \cup {"fatal"}
                    /\ clean' = FALSE
                    /\ UNCHANGED <<store, tmp, puts>>
    /\ UNCHANGED <<fs, rd, db, cmd, now, runs, gets, failed, pre, rd0, nfail, stale, out, other>>

\* PostgreSQL removes a file while the online backup runs
PGUnlink ==
  /\ cmd.op = "create" /\ pc \in {"c_walk", "c_join"}
  /\ \E p \in Volatile \cap DOMAIN fs :
       fs' = [q \in DOMAIN fs \ {p} |-> fs[q]]
  /\ UNCHANGED <<store, rd, tmp, db, cmd, pc, wk, closed, todo, exit, now,
                 runs, ev, puts, gets, failed, pre, rd0, nfail, stale, clean, out, other>>

\* stopBackup: the SQL statement
CreateStop ==
  /\ cmd.op = "create" /\ pc = "c_stop"
  /\ \E fail \in BOOLEAN, mapFile \in {<<>>, <<"map">>} :
       /\ clean' = (clean /\ ~fail)
       /\ IF fail
          THEN /\ End(1)
               /\ ev' = ev \cup {"stopIssued", "stopFail"}
               /\ UNCHANGED db
          ELSE /\ db' = [backup |-> FALSE, conn |-> "closed",
                         map |-> IF cmd.excl THEN <<>> ELSE mapFile,
                         stopOn |-> IF cmd.excl THEN "new" ELSE "same"]
               /\ ev' = ev \cup {"stopIssued", "stopOK"}
               /\ pc' = IF cmd.excl THEN "c_marker" ELSE "c_label"
               /\ UNCHANGED <<exit, wk, closed, todo>>
  /\ UNCHANGED <<store, fs, rd, tmp, cmd, now, runs, puts, gets, failed, pre, rd0, nfail, stale, out, other>>

\* stopBackup, non-exclusive: backup_label is stored in the backup
CreateLabel ==
  /\ cmd.op = "create" /\ pc = "c_label"
  /\ \E fail \in BOOLEAN :
       /\ clean' = (clean /\ ~fail)
       /\ IF fail
          THEN End(1) /\ ev' = ev \cup {"stopFail"} /\ UNCHANGED store
          ELSE /\ store' = PutString(store, cmd.name \o <<Slash, "backup_label">>,
                                     <<"label">>, now)
               /\ ev' = ev \cup {"labelOK"}
               /\ pc' = IF db.map # <<>> THEN "c_map" ELSE "c_marker"
               /\ UNCHANGED <<exit, wk, closed, todo>>
  /\ UNCHANGED <<fs, rd, tmp, db, cmd, now, runs, puts, gets, failed, pre, rd0, nfail, stale, out, other>>

\* stopBackup, non-exclusive: tablespace_map, unless the field is empty
CreateMap ==
  /\ cmd.op = "create" /\ pc = "c_map"
  /\ \E fail \in BOOLEAN :
       /\ clean' = (clean /\ ~fail)
       /\ IF fail
          THEN End(1) /\ ev' = ev \cup {"stopFail"} /\ UNCHANGED store
          ELSE /\ store' = PutString(store, cmd.name \o <<Slash, "tablespace_map">>,
                                     db.map, now)
               /\ ev' = ev \cup {"mapOK"}
               /\ pc' = "c_marker"
               /\ UNCHANGED <<exit, wk, closed, todo>>
  /\ UNCHANGED <<fs, rd, tmp, db, cmd, now, runs, puts, gets, failed, pre, rd0, nfail, stale, out, other>>

\* mark the backup as successful; a failure is logged and nothing else
CreateMarkerAt(pcs) ==
  /\ cmd.op = "create" /\ pc \in pcs
  /\ \E fail \in BOOLEAN :
       /\ clean' = (clean /\ ~fail)
       /\ IF fail
          THEN ev' = ev \cup {"markerAttempt", "markerFail"} /\ UNCHANGED store
          ELSE /\ store' = PutString(store, getSuccessfulMarker(cmd.name), <<>>, now)
               /\ ev' = ev \cup {"markerAttempt", "markerOK"}
  /\ pc' = "c_latest"
  /\ UNCHANGED <<fs, rd, tmp, db, cmd, wk, closed, todo, exit, now, runs, puts, gets,
                 failed, pre, rd0, nfail, stale, out, other>>

\* a createBackup that marks the backup before backup_label is stored
CreateMarkerBeforeLabel == CreateMarkerAt({"c_marker", "c_label"})

CreateMarker == CreateMarkerAt({"c_marker"})

\* update the LATEST marker; a failure ends the command with status 1
CreateLatestExit(codeOnFailure) ==
  /\ cmd.op = "create" /\ pc = "c_latest"
  /\ \E fail \in BOOLEAN :
       /\ clean' = (clean /\ ~fail)
       /\ IF fail
          THEN /\ End(codeOnFailure)
               /\ ev' = ev \cup {"latestAttempt", "latestFail"}
               /\ UNCHANGED <<store, stale>>
          ELSE /\ store' = PutString(store, latestKey, cmd.name, now)
               /\ stale' = FALSE
               /\ ev' = ev \cup {"latestAttempt", "latestOK"}
               /\ End(0)
  /\ UNCHANGED <<fs, rd, tmp, db, cmd, now, runs, puts, gets, failed, pre, rd0, nfail, out, other>>

\* a createBackup that only logs the failure of updateLatest
CreateLatestLogsOnly == CreateLatestExit(0)

CreateLatest == CreateLatestExit(1)

NextCreate ==
  \/ StartCreate
  \/ CreateCheck
  \/ CreateFolder
  \/ CreateStart
  \/ CreateWalk
  \/ CreateClose
  \/ CreateJoin
  \/ BackupWork
  \/ WorkerReturn
  \/ PGUnlink
  \/ CreateStop
  \/ CreateLabel
  \/ CreateMap
  \/ CreateMarker
  \/ CreateLatest

\* create-backup, from each initial bucket
SpecCreate == Init /\ [][NextCreate]_vars

\* ------------------------------------------------------------ delete-backup
StartDelete ==
  \E name \in Names, nW \in Workers :
    Begin([op |-> "delete", name |-> name, nW |-> nW, thr |-> 1,
           excl |-> FALSE, modOnly |-> FALSE], "d_check")

\* a check that finds every backup
backupAssumed(st, name, fail) == TRUE
\* make sure the backup exists: GetString of the folder marker returns no error
backupExists(st, name, fail) == GetOK(st, backupKey(name), fail)

\* make sure the backup exists, then spawn the workers and start the walk
DeleteCheck ==
  /\ cmd.op = "delete" /\ pc = "d_check"
  /\ \E fail \in BOOLEAN :
       /\ fail => Has(store, backupKey(cmd.name))
       /\ clean' = (clean /\ ~fail)
       /\ IF backupExists(store, cmd.name, fail)
          THEN /\ wk' = Spawned
               /\ todo' = WalkFolder(store, backupKey(cmd.name))
               /\ pc' = "d_walk"
               /\ UNCHANGED <<exit, closed, ev>>
          ELSE End(1) /\ ev' = ev \cup {"missing"}
  /\ UNCHANGED <<store, fs, rd, tmp, db, cmd, now, runs, puts, gets, failed, pre, rd0, nfail, stale, out, other>>

\* WalkFolder sends the next key to a worker, or a listing fails and
\* DeleteBackup returns 1
DeleteWalk ==
  /\ cmd.op = "delete" /\ pc = "d_walk"
  /\ \/ /\ todo # <<>>
        /\ Send(Head(todo))
        /\ todo' = Tail(todo)
        /\ UNCHANGED <<pc, exit, closed, ev, clean>>
     \/ /\ End(1)
        /\ ev' = ev \cup {"walkErr"}
        /\ clean' = FALSE
  /\ UNCHANGED <<store, fs, rd, tmp, db, cmd, now, runs, puts, gets, failed, pre, rd0, nfail, stale, out, other>>

\* the walk is over: close(keysC)
DeleteClose ==
  /\ cmd.op = "delete" /\ pc = "d_walk" /\ todo = <<>>
  /\ closed' = TRUE
  /\ pc' = "d_join"
  /\ UNCHANGED <<store, fs, rd, tmp, db, cmd, wk, todo, exit, now, runs, ev,
                 puts, gets, failed, pre, rd0, nfail, stale, clean, out, other>>

\* wg.Wait() returns
DeleteJoin ==
  /\ cmd.op = "delete" /\ pc = "d_join"
  /\ Joined
  /\ ev' = ev \cup {"joined"}
  /\ pc' = "d_folder"
  /\ UNCHANGED <<store, fs, rd, tmp, db, cmd, wk, closed, todo, exit, now,
                 runs, puts, gets, failed, pre, rd0, nfail, stale, clean, out, other>>

\* a delete worker deletes the key it received; a failure is logged
DeleteWork ==
  \E i \in Workers, fail \in BOOLEAN :
    /\ cmd.op = "delete" /\ wk[i].st = "busy"
    /\ wk' = [wk EXCEPT ![i] = Recv]
    /\ clean' = (clean /\ ~fail)
    /\ IF fail
       THEN failed' = failed \cup {wk[i].item} /\ UNCHANGED store
       ELSE store' = Delete(store, wk[i].item) /\ UNCHANGED failed
    /\ UNCHANGED <<fs, rd, tmp, db, cmd, pc, closed, todo, exit, now, runs, ev,
                   puts, gets, pre, rd0, nfail, stale, out, other>>

\* remove the top level folder; a failure ends the command with status 1
DeleteFolder ==
  /\ cmd.op = "delete" /\ pc = "d_folder"
  /\ \E fail \in BOOLEAN :
       /\ clean' = (clean /\ ~fail)
       /\ IF fail
          THEN End(1) /\ ev' = ev \cup {"folderFail"} /\ UNCHANGED store
          ELSE /\ store' = Delete(store, backupKey(cmd.name))
               /\ pc' = "d_marker"
               /\ UNCHANGED <<exit, wk, closed, todo, ev>>
  /\ UNCHANGED <<fs, rd, tmp, db, cmd, now, runs, puts, gets, failed, pre, rd0, nfail, stale, out, other>>

\* deleteSuccessfulMarker: the marker is deleted when GetString finds it; an
\* error of the Delete is logged
DeleteMarker ==
  /\ cmd.op = "delete" /\ pc = "d_marker"
  /\ \E getFail \in BOOLEAN, delFail \in BOOLEAN :
       LET key == getSuccessfulMarker(cmd.name) IN
         /\ (getFail \/ delFail) => Has(store, key)
         /\ ~(getFail /\ delFail)
         /\ clean' = (clean /\ ~getFail /\ ~delFail)
         /\ IF GetOK(store, key, getFail) /\ ~delFail
            THEN store' = Delete(store, key) /\ UNCHANGED ev
            ELSE /\ UNCHANGED store
                 /\ ev' = ev \cup (IF getFail \/ delFail THEN {"markerKept"} ELSE {})
  /\ pc' = "d_latest"
  /\ UNCHANGED <<fs, rd, tmp, db, cmd, wk, closed, todo, exit, now, runs, puts, gets,
                 failed, pre, rd0, nfail, stale, out, other>>

\* a resolveLatest that gives the reserved name back
resolveLatestNot(st) == latestKey
\* resolveLatest: the body of LATEST
resolveLatest(st) == st[latestKey].body

\* an updateReferenceToLatest that takes the last backup of the listing that
\* qualifies, whatever its mtime
RECURSIVE MostRecentLast(_, _, _, _)
MostRecentLast(st, allBackups, bad, best) ==
  IF allBackups = <<>> THEN best
  ELSE LET bkp == Head(allBackups)
           ok == /\ bkp \notin bad
                 /\ Has(st, bkp)
                 /\ Has(st, getSuccessfulMarker(bkp))
       IN MostRecentLast(st, Tail(allBackups), bad,
                         IF ok THEN [key |-> bkp, mtime |-> GetLastModifiedTime(st, bkp)]
                         ELSE best)

\* the loop of updateReferenceToLatest over allBackups: the key and the mtime
\* of the most recent backup whose folder marker answers and whose successful
\* marker is found; bad are the entries for which a request fails
RECURSIVE MostRecent(_, _, _, _)
MostRecent(st, allBackups, bad, best) ==
  IF allBackups = <<>> THEN best
  ELSE LET bkp == Head(allBackups)
           ok == /\ bkp \notin bad
                 /\ Has(st, bkp)
                 /\ Has(st, getSuccessfulMarker(bkp))
           mtime == IF ok THEN GetLastModifiedTime(st, bkp) ELSE 0
       IN MostRecent(st, Tail(allBackups), bad,
                     IF ok /\ mtime > best.mtime
                     THEN [key |-> bkp, mtime |-> mtime] ELSE best)

\* an updateReferenceToLatest that repairs LATEST whatever it names
deletedIsAny(latest, backupName) == TRUE
\* the backup we just deleted is LATEST
deletedIsLatest(latest, backupName) == backupName = latest

\* update the reference to LATEST, then return 0
DeleteLatest ==
  /\ cmd.op = "delete" /\ pc = "d_latest"
  /\ \E latestFail \in BOOLEAN, listFail \in BOOLEAN, putFail \in BOOLEAN,
        bad \in SUBSET ListFolder(store, <<>>) :
       LET mine == Has(store, latestKey) /\ ~latestFail
                     /\ deletedIsLatest(resolveLatest(store), cmd.name)
           allBackups == IF listFail THEN <<>>
                         ELSE SortKeys(ListFolder(store, <<>>))
           new == MostRecent(store, allBackups, bad, [key |-> <<>>, mtime |-> 0])
       IN
         /\ latestFail => Has(store, latestKey)
         /\ (listFail \/ bad # {}) => mine
         /\ listFail => bad = {}
         /\ putFail => (mine /\ new.mtime # 0)
         /\ clean' = (clean /\ ~latestFail /\ ~listFail /\ ~putFail /\ bad = {})
         /\ ev' = ev \cup (IF latestFail \/ listFail \/ putFail \/ bad # {}
                            THEN {"repairFail"} ELSE {})
                     \cup (IF ~GetOK(store, latestKey, latestFail)
                           THEN {"latestUnread"} ELSE {})
                     \cup (IF mine /\ new.mtime = 0 THEN {"noneQualifies"} ELSE {})
                     \cup (IF mine /\ new.mtime # 0 THEN {"latestAttempt"} ELSE {})
         /\ IF mine /\ new.mtime # 0 /\ ~putFail
            THEN store' = PutString(store, latestKey, TrimSuffix(new.key, <<Slash>>), now)
            ELSE UNCHANGED store
  /\ stale' = LatestIs(store', cmd.name)
  /\ End(0)
  /\ UNCHANGED <<fs, rd, tmp, db, cmd, now, runs, puts, gets, failed, pre, rd0, nfail, out, other>>

NextDelete ==
  \/ StartDelete
  \/ DeleteCheck
  \/ DeleteWalk
  \/ DeleteClose
  \/ DeleteJoin
  \/ DeleteWork
  \/ WorkerReturn
  \/ DeleteFolder
  \/ DeleteMarker
  \/ DeleteLatest

\* delete-backup, from each initial bucket
SpecDelete == Init /\ [][NextDelete]_vars

\* ----------------------------------------------------------- restore-backup
directoriesThatMustExist ==
  {<<"pg_tblspc">>, <<"pg_replslot">>, <<"pg_stat">>, <<"pg_snapshots">>, <<"pg_xlog">>}

\* the directories os.MkdirAll(filepath.Dir(dst)) makes
Ancestors(file) == {SubSeq(file, 1, i - 1) : i \in {j \in 1..Len(file) : file[j] = Slash}}
MkdirAll(d, file) ==
  [p \in Ancestors(file) \ DOMAIN d |-> DirEntry] @@ d
\* a regular file of the restored data directory
Written(d, path, mt, c) == (path :> [dir |-> FALSE, mt |-> mt, c |-> c]) @@ d
Removed(d, path) == [p \in DOMAIN d \ {path} |-> d[p]]
\* an os.Chtimes that changes nothing
ChtimesNot(d, path, mt) == d
Chtimes(d, path, mt) ==
  IF path \in DOMAIN d THEN [d EXCEPT ![path].mt = mt] ELSE d

\* a fileHasNotChanged for which every file has changed
fileAlwaysChanged(d, localFile, mtime, statFail) == FALSE
fileHasNotChanged(d, localFile, mtime, statFail) ==
  localFile \in DOMAIN d /\ ~statFail /\ mtime = d[localFile].mt

StartRestore ==
  \E name \in Names \cup {latestKey}, nW \in Workers, modOnly \in BOOLEAN :
    Begin([op |-> "restore", name |-> name, nW |-> nW, thr |-> 1,
           excl |-> FALSE, modOnly |-> modOnly], "r_resolve")

\* LATEST is resolved when it is the name given, the workers are spawned and
\* the walk of the backup folder starts
RestoreResolve ==
  /\ cmd.op = "restore" /\ pc = "r_resolve"
  /\ \E fail \in BOOLEAN :
       /\ fail => (cmd.name = latestKey /\ Has(store, latestKey))
       /\ clean' = (clean /\ ~fail)
       /\ IF cmd.name = latestKey /\ ~GetOK(store, latestKey, fail)
          THEN End(1) /\ ev' = ev \cup {"noLatest"} /\ UNCHANGED cmd
          ELSE LET name == IF cmd.name = latestKey THEN resolveLatest(store)
                           ELSE cmd.name
               IN /\ cmd' = [cmd EXCEPT !.name = name]
                  /\ wk' = Spawned
                  /\ todo' = WalkFolder(store, backupKey(name))
                  /\ pc' = "r_walk"
                  /\ UNCHANGED <<exit, closed, ev>>
  /\ UNCHANGED <<store, fs, rd, tmp, db, now, runs, puts, gets, failed, pre, rd0, nfail, stale, out, other>>

\* WalkFolder sends the next key to a worker, or a listing fails and
\* restoreBackup returns 1
RestoreWalk ==
  /\ cmd.op = "restore" /\ pc = "r_walk"
  /\ \/ /\ todo # <<>>
        /\ Send(Head(todo))
        /\ todo' = Tail(todo)
        /\ UNCHANGED <<pc, exit, closed, ev, clean>>
     \/ /\ End(1)
        /\ ev' = ev \cup {"walkErr"}
        /\ clean' = FALSE
  /\ UNCHANGED <<store, fs, rd, tmp, db, cmd, now, runs, puts, gets, failed, pre, rd0, nfail, stale, out, other>>

\* the walk is over: close(restoreFilesC)
RestoreClose ==
  /\ cmd.op = "restore" /\ pc = "r_walk" /\ todo = <<>>
  /\ closed' = TRUE
  /\ pc' = "r_join"
  /\ UNCHANGED <<store, fs, rd, tmp, db, cmd, wk, todo, exit, now, runs, ev,
                 puts, gets, failed, pre, rd0, nfail, stale, clean, out, other>>

\* wg.Wait() returns
RestoreJoin ==
  /\ cmd.op = "restore" /\ pc = "r_join"
  /\ Joined
  /\ ev' = ev \cup {"joined"}
  /\ pc' = "r_dirs"
  /\ UNCHANGED <<store, fs, rd, tmp, db, cmd, wk, closed, todo, exit, now,
                 runs, puts, gets, failed, pre, rd0, nfail, stale, clean, out, other>>

\* what restoreWorker leaves in the data directory d for the key, once
\* os.Create(dst) succeeded: the download, the decompression of a key with the
\* lz4 extension, the removal of the compressed file and the mtime
Restored(d, st, name, key, mtime, t, getFail, dec, chFail) ==
  LET dst == TrimPrefix(key, backupKey(name))
      body == IF getFail THEN <<>> ELSE st[key].body
      d1 == Written(MkdirAll(d, dst), dst, t, body)
      decompressed == TrimSuffix(dst, LZ4Extension)
      d2 == IF ~IsCompressed(key) THEN d1
            ELSE Removed(
                   IF dec = "open" THEN d1
                   ELSE Written(d1, decompressed, t,
                                IF dec = "ok" THEN Decompress(body) ELSE Garbled),
                   dst)
      localFile == IF IsCompressed(key) THEN decompressed ELSE dst
  IN IF mtime # 0 /\ ~chFail THEN Chtimes(d2, localFile, mtime) ELSE d2

\* one failure more, or none
Count(failure) == IF failure THEN 1 ELSE 0

\* a restore worker handles the key it received
RestoreWork ==
  \E i \in Workers, mtErr \in BOOLEAN, statFail \in BOOLEAN :
    /\ cmd.op = "restore" /\ wk[i].st = "busy"
    /\ LET key == wk[i].item
           dst == TrimPrefix(key, backupKey(cmd.name))
           mtime == IF mtErr THEN 0 ELSE GetLastModifiedTime(store, key)
           local == TrimSuffix(dst, LZ4Extension)
       IN
         /\ statFail => (cmd.modOnly /\ ~mtErr /\ local \in DOMAIN rd)
         /\ IF cmd.modOnly /\ ~mtErr /\ fileHasNotChanged(rd, local, mtime, statFail)
            THEN \* Skipping unmodified file
                 /\ wk' = [wk EXCEPT ![i] = Recv]
                 /\ ev' = ev \cup {"skipped"}
                 /\ clean' = clean
                 /\ UNCHANGED <<rd, gets, nfail>>
            ELSE \/ \* os.Create fails: the worker returns
                    /\ LET n == Count(mtErr) + Count(statFail) + 1
                       IN nfail + n <= MaxRestoreFailures /\ nfail' = nfail + n
                    /\ wk' = [wk EXCEPT ![i] = Gone]
                    /\ ev' = ev \cup {"createFail"}
                    /\ clean' = FALSE
                    /\ UNCHANGED <<rd, gets>>
                 \/ \E getFail \in BOOLEAN, dec \in {"ok", "open", "read"},
                       chFail \in BOOLEAN :
                      /\ dec = "ok" =>
                           (IsCompressed(key) => (~getFail /\ IsFrame(store[key].body)))
                      /\ dec # "ok" => IsCompressed(key)
                      /\ chFail => mtime # 0
                      /\ LET n == Count(mtErr) + Count(statFail) + Count(getFail)
                                    + Count(chFail)
                                    + Count(dec = "open" \/
                                            (dec = "read" /\ ~getFail
                                               /\ IsFrame(store[key].body)))
                         IN nfail + n <= MaxRestoreFailures /\ nfail' = nfail + n
                      /\ rd' = Restored(rd, store, cmd.name, key, mtime, now,
                                        getFail, dec, chFail)
                      /\ gets' = gets \cup
                           {<<key, IF mtErr THEN "mtimeErr"
                                   ELSE IF statFail THEN "statErr" ELSE "ok">>}
                      /\ wk' = [wk EXCEPT ![i] = Recv]
                      /\ ev' = ev \cup (IF getFail THEN {"getFail"} ELSE {})
                                  \cup (IF IsCompressed(key) /\ dec # "ok"
                                        THEN {"decompressFail"} ELSE {})
                      /\ clean' = (clean /\ ~mtErr /\ ~statFail /\ ~getFail /\ ~chFail
                                     /\ dec # "open"
                                     /\ (dec = "read" => ~IsFrame(store[key].body)))
    /\ UNCHANGED <<store, fs, tmp, db, cmd, pc, closed, todo, exit, now, runs,
                   puts, failed, pre, rd0, stale, out, other>>

\* createRequiredDirs, then restoreBackup returns 0; bad are the directories
\* whose os.Mkdir fails
RestoreDirs ==
  /\ cmd.op = "restore" /\ pc = "r_dirs"
  /\ \E bad \in SUBSET (directoriesThatMustExist \ DOMAIN rd) :
       /\ Cardinality(bad) <= MaxMkdirFailures
       /\ rd' = [p \in (directoriesThatMustExist \ DOMAIN rd) \ bad |-> DirEntry] @@ rd
       /\ clean' = (clean /\ bad = {})
  /\ End(0)
  /\ UNCHANGED <<store, fs, tmp, db, cmd, now, runs, ev, puts, gets, failed, pre, rd0, nfail, stale, out, other>>

NextRestore ==
  \/ StartRestore
  \/ RestoreResolve
  \/ RestoreWalk
  \/ RestoreClose
  \/ RestoreJoin
  \/ RestoreWork
  \/ WorkerReturn
  \/ RestoreDirs

\* what a restore-backup of the backup in which nothing fails makes of the
\* directory d
RECURSIVE RestoredAll(_, _, _, _, _)
RestoredAll(d, st, name, keys, t) ==
  IF keys = <<>>
  THEN [p \in directoriesThatMustExist \ DOMAIN d |-> DirEntry] @@ d
  ELSE LET key == Head(keys) IN
         RestoredAll(Restored(d, st, name, key, GetLastModifiedTime(st, key), t, FALSE,
                              IF IsFrame(st[key].body) THEN "ok" ELSE "read", FALSE),
                     st, name, Tail(keys), t)

\* the directory after b0 of Seed1 was restored into an empty one
Dir1 == RestoredAll(EmptyDir, Seed1, B0, WalkFolder(Seed1, backupKey(B0)), 2)
\* the same directory after base/1 was written to
Dir2 == Written(Dir1, P_f1, 9, <<"x">>)

\* the initial buckets and directories of restore-backup
RestoreSeeds == {<<EmptyStore, 0>>, <<Seed1, 1>>, <<Seed2, 2>>, <<Seed3, 2>>}
InitRestore == InitWith(RestoreSeeds, {EmptyDir, Dir2})

\* restore-backup, from each initial bucket and directory
SpecRestore == InitRestore /\ [][NextRestore]_vars

\* ------------------------------------------------ archive-wal, restore-wal
\* filepath.Base: what follows the last separator
RECURSIVE Base(_)
Base(path) ==
  IF FirstSlash(path, 1) = 0 THEN path
  ELSE Base(SubSeq(path, FirstSlash(path, 1) + 1, Len(path)))

\* the working directory PostgreSQL runs the commands in: the data directory
Cwd == <<Slash, "pgdata">>
\* getWALFullPath: the path PostgreSQL passes is relative to the working
\* directory
getWALFullPath(wal) == Join(Cwd, wal)
\* the path relative to the data directory, as the model keys the files
Rel(full) == TrimPrefix(full, Cwd \o <<Slash>>)
\* a getWALObjectKey that keeps the path as it is
getWALObjectKeyFull(walPath) == Join(walFolder, walPath \o LZ4Extension)
\* getWALObjectKey: the file name, without the path, with the lz4 extension
getWALObjectKey(walPath) == Join(walFolder, Base(walPath) \o LZ4Extension)

\* a match that takes no name for a history file
MatchNothing(name) == FALSE
\* regexp.MatchString(`[0-9]+\.history`, name): somewhere in the name digits
\* are followed by ".history"
MatchHistory(name) ==
  \E i \in 1..(Len(name) - 1) :
    /\ \E v \in 1..Len(Digit) : name[i] = Digit[v]
    /\ name[i + 1] = ".history"

\* a timeline history file in pg_xlog, and the cluster holding it
P_hist == <<"pg_xlog", "/", "2", ".history">>
WalDirectory == (P_hist :> File(1, 7, <<"h">>)) @@ DataDirectory
\* the %p archive-wal is run with: a segment, a history file, a file that is
\* not there
ArchivePaths == {P_wal, P_hist, <<"pg_xlog", "/", "v">>}
\* the %f and %p restore-wal is run with
WalFileNames == {Base(p) : p \in ArchivePaths}
P_recovery == <<"pg_xlog", "/", "RECOVERYXLOG">>

\* the temporary file of the command in tmpDir
TmpOf(c) == <<"tmp">> \o Base(c.walPath)

\* a command starts; the keys archived so far are kept in puts
BeginWAL(c, first) ==
  /\ pc = "done"
  /\ runs < MaxWalRuns
  /\ cmd' = c
  /\ pc' = first
  /\ runs' = runs + 1
  /\ now' = now + 1
  /\ exit' = -1
  /\ ev' = {}
  /\ pre' = store
  /\ rd0' = rd
  /\ gets' = {}
  /\ UNCHANGED <<store, fs, rd, tmp, db, wk, closed, todo, puts, failed,
                 nfail, stale, clean, out, other>>

WalCmd(op, walPath, walFileName) ==
  [op |-> op, name |-> walFileName, nW |-> 1, thr |-> 1, excl |-> FALSE,
   modOnly |-> FALSE, walPath |-> walPath]

StartArchive ==
  \E p \in ArchivePaths : BeginWAL(WalCmd("archive-wal", p, Base(p)), "a_path")

\* getWALFullPath: os.Getwd may fail
ArchivePath ==
  /\ cmd.op = "archive-wal" /\ pc = "a_path"
  /\ \E fail \in BOOLEAN :
       IF fail THEN End(1) /\ ev' = ev \cup {"pathErr"}
       ELSE pc' = "a_compress" /\ UNCHANGED <<exit, wk, closed, todo, ev>>
  /\ UNCHANGED <<store, fs, rd, tmp, db, cmd, now, runs, puts, failed, gets,
                 pre, rd0, nfail, stale, clean, out, other>>

\* util.Compress: the temporary file is created first; when the segment
\* cannot be opened, read or compressed the error is returned and the
\* temporary file stays
ArchiveCompress ==
  /\ cmd.op = "archive-wal" /\ pc = "a_compress"
  /\ LET p == Rel(getWALFullPath(cmd.walPath))
         there == IF p \in DOMAIN fs THEN ~fs[p].dir ELSE FALSE
     IN \E res \in {"ok", "tempfile", "io"} :
          /\ res = "ok" => there
          /\ IF res = "ok"
             THEN /\ tmp' = tmp \cup {TmpOf(cmd)}
                  /\ pc' = "a_put"
                  /\ UNCHANGED <<exit, wk, closed, todo, ev>>
             ELSE /\ tmp' = IF res = "io" THEN tmp \cup {TmpOf(cmd)} ELSE tmp
                  /\ End(1)
                  /\ ev' = ev \cup {"compressErr"}
  /\ UNCHANGED <<store, fs, rd, db, cmd, now, runs, puts, failed, gets,
                 pre, rd0, nfail, stale, clean, out, other>>

\* storage.Put of the compressed file with mtime 0, MustRemoveFile, return
ArchivePut ==
  /\ cmd.op = "archive-wal" /\ pc = "a_put"
  /\ LET full == getWALFullPath(cmd.walPath)
         key == getWALObjectKey(full)
     IN \E fail \in BOOLEAN :
          IF fail
          THEN /\ End(1)
               /\ ev' = ev \cup {"putErr"}
               /\ UNCHANGED <<store, puts>>
          ELSE /\ store' = Put(store, key, Compress(fs[Rel(full)].c), 0, now)
               /\ puts' = puts \cup {key}
               /\ End(0)
               /\ ev' = ev \cup {"archived"}
  /\ tmp' = tmp \ {TmpOf(cmd)}
  /\ UNCHANGED <<fs, rd, db, cmd, now, runs, failed, gets, pre, rd0, nfail,
                 stale, clean, out, other>>

StartRestoreWal ==
  \E f \in WalFileNames :
    BeginWAL(WalCmd("restore-wal", P_recovery, f), "w_path")

\* getWALFullPath, then history files are ignored
RestoreWalPath ==
  /\ cmd.op = "restore-wal" /\ pc = "w_path"
  /\ \E fail \in BOOLEAN :
       IF fail THEN End(1) /\ ev' = ev \cup {"pathErr"}
       ELSE IF MatchHistory(cmd.name)
            THEN End(0) /\ ev' = ev \cup {"history"}
            ELSE pc' = "w_tmp" /\ UNCHANGED <<exit, wk, closed, todo, ev>>
  /\ UNCHANGED <<store, fs, rd, tmp, db, cmd, now, runs, puts, failed, gets,
                 pre, rd0, nfail, stale, clean, out, other>>

\* ioutil.TempFile; its error is dropped and outTmp.Name() of the nil file
\* panics: the process ends with status 2
RestoreWalTemp ==
  /\ cmd.op = "restore-wal" /\ pc = "w_tmp"
  /\ \E fail \in BOOLEAN :
       IF fail THEN End(2) /\ ev' = ev \cup {"panic"} /\ UNCHANGED tmp
       ELSE /\ tmp' = tmp \cup {TmpOf(cmd)}
            /\ pc' = "w_get"
            /\ UNCHANGED <<exit, wk, closed, todo, ev>>
  /\ UNCHANGED <<store, fs, rd, db, cmd, now, runs, puts, failed, gets,
                 pre, rd0, nfail, stale, clean, out, other>>

\* storage.Get into the temporary file, then outTmp.Close(); on an error the
\* command returns 1 and the deferred MustRemoveFile runs
RestoreWalGet ==
  /\ cmd.op = "restore-wal" /\ pc = "w_get"
  /\ LET key == getWALObjectKey(cmd.name)
     IN \E getFail \in BOOLEAN, closeFail \in BOOLEAN :
          /\ gets' = gets \cup {<<key, "wal">>}
          /\ IF ~GetOK(store, key, getFail) \/ closeFail
             THEN /\ End(1)
                  /\ ev' = ev \cup {IF closeFail /\ GetOK(store, key, getFail)
                                    THEN "closeErr" ELSE "getFail"}
                  /\ tmp' = tmp \ {TmpOf(cmd)}
             ELSE /\ pc' = "w_decompress"
                  /\ UNCHANGED <<exit, wk, closed, todo, ev, tmp>>
  /\ UNCHANGED <<store, fs, rd, db, cmd, now, runs, puts, failed,
                 pre, rd0, nfail, stale, clean, out, other>>

\* util.Decompress(tmp, walFullPath): "open" the temporary file cannot be
\* opened, "create" os.Create of the segment fails, "read" reading the frame or
\* writing a chunk fails, "flush" the last w.Flush() fails and Decompress
\* panics, "close" closing the segment fails.  The deferred MustRemoveFile
\* runs on every one of them.
RestoreWalDecompress ==
  /\ cmd.op = "restore-wal" /\ pc = "w_decompress"
  /\ LET key == getWALObjectKey(cmd.name)
         body == store[key].body
         dst == Rel(getWALFullPath(cmd.walPath))
         parent == Ancestors(dst)
     IN \E res \in {"ok", "open", "create", "read", "flush", "close"} :
          /\ res \in {"ok", "flush", "close"} =>
               (IsFrame(body) /\ parent \subseteq DOMAIN rd)
          /\ res = "read" => parent \subseteq DOMAIN rd
          /\ rd' = CASE res \in {"open", "create"} -> rd
                     [] res \in {"read", "flush"} -> Written(rd, dst, now, Garbled)
                     [] OTHER -> Written(rd, dst, now, Decompress(body))
          /\ End(CASE res = "ok" -> 0 [] res = "flush" -> 2 [] OTHER -> 1)
          /\ ev' = ev \cup (CASE res = "ok" -> {"restored"}
                              [] res = "flush" -> {"panic", "decompressFail"}
                              [] OTHER -> {"decompressFail"})
  /\ tmp' = tmp \ {TmpOf(cmd)}
  /\ UNCHANGED <<store, fs, db, cmd, now, runs, puts, failed, gets,
                 pre, rd0, nfail, stale, clean, out, other>>

NextWAL ==
  \/ StartArchive
  \/ ArchivePath
  \/ ArchiveCompress
  \/ ArchivePut
  \/ StartRestoreWal
  \/ RestoreWalPath
  \/ RestoreWalTemp
  \/ RestoreWalGet
  \/ RestoreWalDecompress

\* the buckets and the directories the WAL commands start from: an empty
\* bucket or one holding a backup, a directory restore-backup has filled or
\* an empty one
InitWAL == InitOf({<<EmptyStore, 0>>, <<Seed1, 1>>}, {EmptyDir, Dir1}, WalDirectory)
SpecWAL == InitWAL /\ [][NextWAL]_vars

\* ------------------------------------------------------- the backup name
\* backupNameRE, "^[a-zA-Z0-9_-]+$": the name is not empty and has no
\* separator and no dot
MatchBackupNameRE(name) ==
  /\ name # <<>>
  /\ \A i \in 1..Len(name) : name[i] \notin {Slash, ".lz4", ".history"}
\* validateBackupName: LATEST is let through, any other name has to match
validateBackupName(name) == name = latestKey \/ MatchBackupNameRE(name)

\* names given with --backup-name besides those of Names
OtherNames ==
  {latestKey, successfullyCompletedFolder, walFolder, <<"b0", Slash, "base">>,
   <<"b0", ".lz4">>, <<>>}

\* create-backup and delete-backup with one of the other names: parseArgs
\* runs validateBackupName before the command is called
StartCreateNamed ==
  \E name \in OtherNames, nW \in Workers :
    /\ validateBackupName(name)
    /\ Begin([op |-> "create", name |-> name, nW |-> nW, thr |-> SeedThreshold,
              excl |-> FALSE, modOnly |-> FALSE], "c_check")
StartDeleteNamed ==
  \E name \in OtherNames, nW \in Workers :
    /\ validateBackupName(name)
    /\ Begin([op |-> "delete", name |-> name, nW |-> nW, thr |-> 1,
              excl |-> FALSE, modOnly |-> FALSE], "d_check")

\* the bucket holding b0 after archive-wal pg_xlog/w
SeedW == Put(Seed1, getWALObjectKey(P_wal), Compress(DataDirectory[P_wal].c), 0, 2)

NextNamed ==
  \/ StartCreateNamed
  \/ StartDeleteNamed
  \/ NextCreate
  \/ NextDelete
InitNamed == InitWith({<<SeedW, 2>>}, {EmptyDir})
SpecNamed == InitNamed /\ [][NextNamed]_vars

\* ------------------------------------------------------------- list-backups
\* listBackups as one step (it only reads the bucket): ListFolder("") may
\* fail, which is logged, and so may each GetLastModifiedTime, each GetString
\* of a successful marker and GetString(LATEST); it returns 0 on every path.
\* It runs alone or after the command of the behaviour; cmd, exit and ev keep
\* describing that command. ListFailures are the requests for single entries
\* that fail: those for the modified-time and those for the marker.
ListFailures(st) ==
  LET asked == {k \in ListFolder(st, <<>>) :
                  TrimSuffix(k, <<Slash>>) \notin {successfullyCompletedFolder, walFolder}}
  IN {f \in (SUBSET asked) \X (SUBSET asked) :
        Cardinality(f[1]) + Cardinality(f[2]) <= MaxListFailures}

ListBackups ==
  /\ pc = "done" /\ out = NoOut
  /\ \E listFail, latestFail \in BOOLEAN, failing \in ListFailures(store) :
       LET headFail == failing[1]
           markFail == failing[2]
           keys == IF listFail THEN {} ELSE ListFolder(store, <<>>)
           latest == IF latestFail \/ ~Has(store, latestKey) THEN <<>>
                     ELSE store[latestKey].body
       IN \E backups \in sortByTimestamp(backupEntries(store, keys, headFail, markFail)) :
            out' = [rows |-> printed(backups, latest),
                    code |-> 0,
                    failures |-> [list |-> listFail,
                                  latest |-> latestFail /\ Has(store, latestKey),
                                  head |-> headFail \cap keys,
                                  mark |-> markFail \cap keys]]
  /\ runs' = runs + 1
  /\ UNCHANGED <<store, fs, rd, tmp, db, cmd, pc, wk, closed, todo, exit, now,
                 ev, puts, failed, gets, pre, rd0, nfail, stale, clean, other>>

NextList ==
  \/ ListBackups
  \/ NextCreate
  \/ NextDelete
\* buckets to list: empty; b0 complete and b1 incomplete; b1 and then b0
\* complete, so that the order of the keys is not the order of the times
InitList == InitWith({<<EmptyStore, 0>>, <<Seed3, 2>>, <<Seed5, 2>>}, {EmptyDir})
SpecList == InitList /\ [][NextList]_vars

\* ------------------------------------- two create-backup of the same name
\* While a create-backup X runs, a second process runs create-backup X
\* against the same bucket. The second process takes the same steps of
\* createBackup; its upload of the files is one step.
OtherStep(next) ==
  /\ other' = next
  /\ UNCHANGED <<fs, rd, tmp, db, cmd, pc, wk, closed, todo, exit, now, runs, ev,
                 puts, gets, failed, pre, rd0, nfail, stale, clean, out>>

\* the second process starts
OtherStart ==
  /\ cmd.op = "create" /\ pc # "done" /\ other.pc = "off"
  /\ OtherStep([other EXCEPT !.pc = "check"])
  /\ UNCHANGED store

\* createBackup: don't allow existing backups to be overwritten
OtherCheck ==
  /\ other.pc = "check"
  /\ \E fail \in BOOLEAN :
       /\ fail => backupKey(cmd.name) \in DOMAIN store
       /\ IF GetOK(store, backupKey(cmd.name), fail)
          THEN OtherStep([other EXCEPT !.pc = "done", !.exit = 1])
          ELSE OtherStep([other EXCEPT !.pc = "mkdir", !.passed = TRUE,
                                       !.clean = ~fail])
  /\ UNCHANGED store

\* createBackup: create the top level "folder"
OtherFolder ==
  /\ other.pc = "mkdir"
  /\ \E fail \in BOOLEAN :
       IF fail
       THEN /\ OtherStep([other EXCEPT !.pc = "done", !.exit = 1, !.clean = FALSE])
            /\ UNCHANGED store
       ELSE /\ store' = PutString(store, backupKey(cmd.name), <<>>, now)
            /\ OtherStep([other EXCEPT !.pc = "upload",
                                       !.wrote = @ \cup {backupKey(cmd.name)}])

\* createBackup: startBackup fails (as pg_start_backup does when an
\* exclusive backup is already running) and the process returns 1, or the
\* files are uploaded and the process goes on to its end
OtherUpload ==
  /\ other.pc = "upload"
  /\ \/ /\ OtherStep([other EXCEPT !.pc = "done", !.exit = 1, !.clean = FALSE])
        /\ UNCHANGED store
     \/ /\ store' = Uploaded(store, cmd.name, BackedUp \cap DOMAIN fs, cmd.thr, now)
        /\ OtherStep([other EXCEPT !.pc = "done", !.exit = 0,
                        !.wrote = @ \cup {FileKey(cmd.name, f, cmd.thr) :
                                             f \in BackedUp \cap DOMAIN fs}])

NextRace ==
  \/ NextCreate
  \/ OtherStart
  \/ OtherCheck
  \/ OtherFolder
  \/ OtherUpload
SpecRace == InitWith({<<EmptyStore, 0>>}, {EmptyDir}) /\ [][NextRace]_vars

\* -------------------------------------------------- util.IsCompressed alone
\* the keys IsCompressed is applied to: up to three tokens, among them keys
\* shorter than the extension and keys with the extension inside
KeyTokens == {"b", "/", "t", ".lz4", "base"}
KeyInputs == UNION {[1..n -> KeyTokens] : n \in 1..3}

\* a process calls util.IsCompressed(key)
CallIsCompressed ==
  \E key \in KeyInputs :
    Begin([NoCmd EXCEPT !.op = "IsCompressed", !.name = key], "k_call")

\* the call returns true or false, or the process ends with the panic
\* (exit status 2)
ReturnIsCompressed ==
  /\ cmd.op = "IsCompressed" /\ pc = "k_call"
  /\ IF IsCompressedPanics(cmd.name)
     THEN End(2) /\ ev' = ev \cup {"panic"}
     ELSE End(0) /\ ev' = ev \cup {IF IsCompressed(cmd.name) THEN "true" ELSE "false"}
  /\ UNCHANGED <<store, fs, rd, tmp, db, cmd, now, runs, puts, gets, failed,
                 pre, rd0, nfail, stale, clean, out, other>>

NextKeys == CallIsCompressed \/ ReturnIsCompressed
SpecKeys == InitWith({<<EmptyStore, 0>>}, {EmptyDir}) /\ [][NextKeys]_vars

\* --------------------------------------------------------------- the claims
CreateDone == cmd.op = "create" /\ pc = "done" /\ runs = 1
Running(op) == cmd.op = op /\ pc # "done"
NoFileVanished == DOMAIN fs = DOMAIN DataDirectory

\* The initial buckets are buckets the program reaches: a create-backup of b0
\* (of b1) in which nothing fails turns the empty bucket into Seed1 (Seed1 into
\* Seed2), and one whose stopBackup statement fails turns Seed1 into Seed3;
\* likewise for the buckets with b1 taken before b0, and with b2 taken last.
SeedsReachable ==
  /\ (CreateDone /\ exit = 0 /\ clean /\ NoFileVanished /\ cmd.thr = SeedThreshold
        /\ ~cmd.excl /\ db.map = <<>>)
     => /\ (pre = EmptyStore /\ cmd.name = B0) => store = Seed1
        /\ (pre = Seed1 /\ cmd.name = B1) => store = Seed2
        /\ (pre = EmptyStore /\ cmd.name = B1) => store = Seed4
        /\ (pre = Seed4 /\ cmd.name = B0) => store = Seed5
        /\ (pre = Seed5 /\ cmd.name = B2) => store = Seed6
        /\ (pre = Seed2 /\ cmd.name = B2) => store = Seed7
  /\ (CreateDone /\ ev \cap {"stopFail", "joined"} = {"stopFail", "joined"}
        /\ ev \cap {"labelOK", "compressErr"} = {}
        /\ NoFileVanished /\ cmd.thr = SeedThreshold /\ pre = Seed1 /\ cmd.name = B1)
     => store = Seed3
SeedsReached ==
  /\ CreateDone /\ exit = 0 /\ clean /\ NoFileVanished /\ cmd.thr = SeedThreshold
  /\ ~cmd.excl /\ db.map = <<>> /\ pre = Seed1 /\ cmd.name = B1

\* pg_stop_backup returned and what it handed over is stored
StopSucceeded ==
  /\ "stopOK" \in ev
  /\ ~cmd.excl => "labelOK" \in ev
  /\ db.map # <<>> => "mapOK" \in ev

\* C1: create-backup X writes successful/X (the engine issues the write) if and
\* only if every backup worker completed all its items without a fatal error
\* and pg_stop_backup, with its backup_label / tablespace_map writes, succeeded.
C1_MarkerIffWorkersAndStop ==
  CreateDone =>
    ("markerAttempt" \in ev <=> ("joined" \in ev /\ "fatal" \notin ev /\ StopSucceeded))

\* C2: between commands, if LATEST exists its body names a backup whose folder
\* marker and successful marker both exist, unless a delete-backup of that
\* backup failed to repair LATEST.
C2_LatestNamesSuccessful ==
  (pc = "done" /\ Has(store, latestKey)) =>
    \/ stale
    \/ /\ Has(store, backupKey(store[latestKey].body))
       /\ Has(store, getSuccessfulMarker(store[latestKey].body))

\* C3: pg_stop_backup is issued only after the channel was closed and every
\* backup worker has returned, and no backup worker Puts after it was issued.
C3_StopAfterJoin ==
  /\ (Running("create") /\ "stopIssued" \in ev) => (closed /\ Joined)
  /\ cmd.op = "create" => "putAfterStop" \notin ev

\* the step records the event
Newly(e) == e \in ev' /\ e \notin ev
\* C4: in create-backup, pg_start_backup has returned success before any data
\* file is Put; pg_stop_backup and the backup_label / tablespace_map writes are
\* complete before successful/X is written; the write of successful/X is
\* attempted before LATEST is written.
C4_CreateStepsOrdered ==
  [][(cmd.op = "create" /\ cmd' = cmd) =>
       /\ puts' # puts => "startOK" \in ev
       /\ Newly("markerAttempt") => StopSucceeded
       /\ Newly("latestAttempt") => "markerAttempt" \in ev]_vars
C4_Witness ==
  CreateDone /\ exit = 0 /\ puts # {} /\ ~cmd.excl /\ db.map # <<>> /\ "latestOK" \in ev

\* C5: when create-backup X returns 0, GetString(LATEST) returns X.
C5_LatestAfterSuccess == (CreateDone /\ exit = 0) => LatestIs(store, cmd.name)
C5_Witness == CreateDone /\ exit = 0 /\ LatestIs(pre, B0) /\ cmd.name = B1

\* LATEST is as it was before the command
SameLatest ==
  /\ Has(store, latestKey) <=> Has(pre, latestKey)
  /\ Has(store, latestKey) => store[latestKey].body = pre[latestKey].body
\* C6: if pg_start_backup, the upload step or pg_stop_backup fails, create-backup
\* X exits 1, successful/X does not exist afterwards and LATEST is as before;
\* on a stop failure the folder marker and the uploaded files remain.  (Stated
\* for a name that had no successful marker before the command.)
C6_FailureLeavesIncomplete ==
  (/\ CreateDone
   /\ ev \cap {"startFail", "walkErr", "fatal", "stopFail"} # {}
   /\ ~Has(pre, getSuccessfulMarker(cmd.name))) =>
    /\ exit = 1
    /\ ~Has(store, getSuccessfulMarker(cmd.name))
    /\ SameLatest
    /\ "stopFail" \in ev => (Has(store, backupKey(cmd.name)) /\ puts \subseteq DOMAIN store)

\* list-backups shows the backup as incomplete
RenderedIncomplete(name) ==
  \E r \in ListRows(store) : r.name = name /\ r.status = "(incomplete!) "
\* C7: if the successful-marker write fails during create-backup X, the backup
\* is left incomplete: successful/X does not exist, LATEST does not name X, and
\* list-backups renders X with (incomplete!).  (The claim's first case, in a
\* run whose walk was complete and whose workers were joined.)
C7_MarkerFailureLeavesIncomplete ==
  (CreateDone /\ "joined" \in ev /\ "markerFail" \in ev) =>
    /\ ~Has(store, getSuccessfulMarker(cmd.name))
    /\ ~LatestIs(store, cmd.name)
    /\ RenderedIncomplete(cmd.name)
\* C7, the claim's second case: the LATEST write fails.
C7_LatestFailureLeavesIncomplete ==
  (CreateDone /\ "latestFail" \in ev) =>
    /\ ~Has(store, getSuccessfulMarker(cmd.name))
    /\ ~LatestIs(store, cmd.name)
    /\ RenderedIncomplete(cmd.name)

\* C8: after a create-backup X that wrote successful/X (its walk complete and
\* its workers joined), every file of the data directory that is not filtered
\* and was there during the whole backup has an object X/<relpath> or
\* X/<relpath>.lz4.
C8_EveryFileHasObject ==
  (CreateDone /\ {"markerOK", "joined"} \subseteq ev) =>
    \A p \in DOMAIN fs :
      (~fs[p].dir /\ ~ignoreFile(p)) =>
        \/ Has(store, Join(cmd.name, p))
        \/ Has(store, Join(cmd.name, p) \o LZ4Extension)

RestoreDone == cmd.op = "restore" /\ pc = "done" /\ runs = 1
\* the files stopBackup hands over in a non-exclusive backup
FromStop == {<<"backup_label">>, <<"tablespace_map">>}
RegularFiles(d) == {p \in DOMAIN d : ~d[p].dir}

\* The initial directory Dir1 is one the program reaches: a restore-backup of
\* b0 in which nothing fails makes it of the empty directory.
DirsReachable ==
  (RestoreDone /\ exit = 0 /\ clean /\ pre = Seed1 /\ cmd.name = B0 /\ rd0 = EmptyDir)
    => rd = Dir1
DirsReached ==
  RestoreDone /\ exit = 0 /\ clean /\ pre = Seed1 /\ cmd.name = B0 /\ rd0 = EmptyDir

\* C9: a restore-backup of X, in which no request and no file operation fails,
\* of a backup X that a create-backup in which nothing failed made of the data
\* directory, into an empty directory: when it returns 0 every file of the
\* source that is neither a directory nor filtered is in the directory, with
\* the content and the mtime of the source, and every other file of the
\* directory is one that pg_stop_backup handed over.
C9_RoundTrip ==
  (RestoreDone /\ exit = 0 /\ clean /\ rd0 = EmptyDir
     /\ Has(pre, getSuccessfulMarker(cmd.name))) =>
    /\ \A p \in BackedUp :
         /\ p \in RegularFiles(rd)
         /\ rd[p].c = DataDirectory[p].c
         /\ rd[p].mt = DataDirectory[p].mt
    /\ RegularFiles(rd) \subseteq BackedUp \cup FromStop

DeleteDone == cmd.op = "delete" /\ pc = "done" /\ runs = 1
\* the objects of st whose key starts with the prefix
Under(st, prefix) == {k \in DOMAIN st : HasPrefix(k, prefix)}

\* C10, as stated: after delete-backup X returns 0 no object exists under X/,
\* the folder marker included, and successful/X does not exist, whatever
\* Delete calls of the delete workers failed.
C10_NothingLeftAfterDelete ==
  (DeleteDone /\ exit = 0) =>
    /\ Under(store, backupKey(cmd.name)) = {}
    /\ ~Has(store, getSuccessfulMarker(cmd.name))

\* C10, amended: after delete-backup X returns 0 the folder marker X/ does not
\* exist, every object left under X/ is one whose Delete failed in a delete
\* worker, and successful/X is left only when the GetString or the Delete of
\* deleteSuccessfulMarker failed; so when no request failed no object exists
\* under X/ and successful/X does not exist.
C10_DeleteLeavesOnlyFailedDeletes ==
  (DeleteDone /\ exit = 0) =>
    /\ ~Has(store, backupKey(cmd.name))
    /\ Under(store, backupKey(cmd.name)) = failed
    /\ Has(store, getSuccessfulMarker(cmd.name)) =>
         ("markerKept" \in ev /\ Has(pre, getSuccessfulMarker(cmd.name)))
    /\ clean =>
         /\ Under(store, backupKey(cmd.name)) = {}
         /\ ~Has(store, getSuccessfulMarker(cmd.name))

\* a delete-backup of a complete backup returned 0 although a worker's Delete
\* failed: the object is still there
C10_Witness ==
  /\ DeleteDone /\ exit = 0
  /\ Has(pre, getSuccessfulMarker(cmd.name))
  /\ failed # {}
  /\ failed \subseteq DOMAIN store

\* the backups other than X that are left with their folder marker and their
\* successful marker
Candidates(st) ==
  {n \in Names \ {cmd.name} : Has(st, backupKey(n)) /\ Has(st, getSuccessfulMarker(n))}
\* n is a candidate whose folder marker has the greatest modified time
Greatest(st, n) ==
  /\ n \in Candidates(st)
  /\ \A c \in Candidates(st) :
       GetLastModifiedTime(st, backupKey(c)) <= GetLastModifiedTime(st, backupKey(n))

\* C11, as stated: if LATEST is X when delete-backup X runs and another backup
\* with a successful marker remains, then after delete-backup X returns LATEST
\* names the remaining successful backup whose folder marker has the greatest
\* modified time.  (Stated for the runs that return 0.)
C11_LatestRepaired ==
  (DeleteDone /\ exit = 0 /\ LatestIs(pre, cmd.name) /\ Candidates(store) # {}) =>
    (Has(store, latestKey) /\ Greatest(store, store[latestKey].body))

\* C11, amended: in that case, when delete-backup X returns 0 and no request of
\* the repair of LATEST failed, LATEST names the remaining successful backup
\* whose folder marker has the greatest modified time; in every case LATEST
\* names X, as before, or a remaining successful backup.
C11_LatestRepairedUnlessFailure ==
  (DeleteDone /\ LatestIs(pre, cmd.name) /\ Candidates(store) # {}) =>
    /\ Has(store, latestKey)
    /\ store[latestKey].body \in Candidates(store) \cup {cmd.name}
    /\ (exit = 0 /\ "repairFail" \notin ev) => Greatest(store, store[latestKey].body)

\* delete-backup b2 repaired LATEST with two successful backups left, the more
\* recent of which comes first in the listing
C11_Witness ==
  /\ DeleteDone /\ exit = 0 /\ "repairFail" \notin ev
  /\ pre = Seed6 /\ cmd.name = B2
  /\ Candidates(store) = {B0, B1}
  /\ LatestIs(store, B0)

\* the LATEST object is the one it was before the command
LatestUntouched ==
  /\ Has(store, latestKey) <=> Has(pre, latestKey)
  /\ Has(store, latestKey) => store[latestKey] = pre[latestKey]

\* C12: delete-backup X leaves the LATEST object as it is whenever its body is
\* not X, or it cannot be read, or no remaining backup has both a readable
\* non-zero modified time and a successful marker; and it never deletes LATEST.
C12_LatestLeftAlone ==
  DeleteDone =>
    /\ Has(pre, latestKey) => Has(store, latestKey)
    /\ ~LatestIs(pre, cmd.name) => LatestUntouched
    /\ "latestUnread" \in ev => LatestUntouched
    /\ ("noneQualifies" \in ev \/ Candidates(store) = {}) => LatestUntouched

\* delete-backup b0 of the only backup, nothing failing: LATEST still names b0
C12_Witness ==
  /\ DeleteDone /\ exit = 0 /\ clean
  /\ pre = Seed1 /\ cmd.name = B0
  /\ "noneQualifies" \in ev
  /\ store[latestKey] = pre[latestKey]

\* the local file the key is restored to
LocalOf(key) == TrimSuffix(TrimPrefix(key, backupKey(cmd.name)), LZ4Extension)
\* the local file is there with the Modified_time stored on the key
SameMtime(key) ==
  /\ LocalOf(key) \in DOMAIN rd
  /\ rd[LocalOf(key)].mt = GetLastModifiedTime(store, key)
\* worker i ends its work on the key it holds
Handles(i) == wk[i].st = "busy" /\ wk'[i] # wk[i]

\* C13, as stated: with --modified-only a restore worker issues Get for k only
\* if the local file is absent or its mtime differs from the Modified_time
\* stored on k, and when they are equal the local file is left untouched.
C13_GetOnlyIfModified ==
  [][(cmd.op = "restore" /\ cmd.modOnly) =>
       /\ \A g \in gets' \ gets : ~SameMtime(g[1])
       /\ \A i \in Workers : (Handles(i) /\ SameMtime(wk[i].item)) => rd' = rd]_vars

\* C13, amended: with --modified-only a restore worker issues Get for k only
\* if the local file is absent, or its mtime differs from the Modified_time
\* stored on k, or GetLastModifiedTime(k) or the stat of the local file failed;
\* when the two times were read and are equal the local file is left untouched.
C13_GetOnlyIfModifiedOrUnread ==
  [][(cmd.op = "restore" /\ cmd.modOnly) =>
       /\ \A g \in gets' \ gets : g[2] = "ok" => ~SameMtime(g[1])
       /\ \A i \in Workers :
            (Handles(i) /\ SameMtime(wk[i].item)) =>
              \/ rd' = rd /\ gets' = gets
              \/ \E g \in gets' \ gets : g[2] # "ok"]_vars

\* restore-backup --modified-only of b0 into the directory in which base/1 was
\* written to since its restore: base/1 is the one file that was fetched
C13_Witness ==
  /\ RestoreDone /\ cmd.modOnly /\ exit = 0 /\ clean
  /\ rd0 = Dir2 /\ cmd.name = B0
  /\ gets = {<<Join(B0, P_f1), "ok">>}
  /\ "skipped" \in ev
  /\ rd = Dir1

\* the keys restore-backup enumerates: those under the backup's folder
BackupKeys == Under(store, backupKey(cmd.name)) \ {backupKey(cmd.name)}
\* modification times files are uploaded with, 0 for none
Mtimes ==
  LET F == {DataDirectory[p].mt : p \in RegularFiles(DataDirectory)}
  IN {0, now} \cup F \cup {a * a : a \in F}
\* Put(k, f, m), then GetLastModifiedTime(k), gives m: m when the metadata is
\* written, 0 when it is not (m = 0)
PutThenGetLastModifiedTime ==
  \A k \in BackupKeys, m \in Mtimes :
    LET st == Put(store, k, store[k].body, m, now)
    IN /\ GetLastModifiedTime(st, k) = m
       /\ (m = 0) = ("Modified_time" \notin DOMAIN st[k].meta)
\* the restore of an object without the metadata leaves the file with the
\* time it was written at
NoMetadataNoChtimes ==
  \A k \in BackupKeys :
    LET st == Put(store, k, store[k].body, 0, now)
        dec == IF IsCompressed(k) /\ ~IsFrame(store[k].body) THEN "read" ELSE "ok"
        d == Restored(rd, st, cmd.name, k, GetLastModifiedTime(st, k), now,
                      FALSE, dec, FALSE)
    IN d[LocalOf(k)].mt = now

Started == {i \in Workers : i <= cmd.nW}
\* the producer is inside a send of an item of the page it is walking and every
\* worker has returned: nothing will ever receive the item
BlockedOnSend ==
  /\ cmd.op = "restore" /\ pc = "r_walk" /\ todo # <<>>
  /\ (Len(WalkFolder(store, backupKey(cmd.name))) - Len(todo)) % PageSize # 0
  /\ \A i \in Started : wk[i] = Gone

\* C15: for every worker count and every pattern of per-item failures the
\* producer sends every enumerated item, closes the channel and the join
\* completes: the command is never blocked forever on a channel send.
C15_NeverBlockedOnSend == ~BlockedOnSend

\* the failures restoreWorker logs as errors for an item
RestoreItemFailures == {"createFail", "getFail", "decompressFail"}

\* C16: when a restore worker fails on an item (the file cannot be created,
\* the download or the decompression fails) the exit status of restore-backup
\* is not zero; an upload failure of a backup worker ends create-backup with a
\* non-zero status.
C16_WorkerFailureExitsNonZero ==
  /\ (RestoreDone /\ ev \cap RestoreItemFailures # {}) => exit # 0
  /\ (CreateDone /\ "fatal" \in ev) => exit # 0

\* C17: a failure of a worker on an item does not reduce the number of live
\* workers consuming the channel: a worker stops receiving only once the
\* channel is closed, so every other item is still received and processed.
C17_WorkersLiveUntilClose ==
  [][\A i \in Started :
       (cmd' = cmd /\ wk[i].st = "busy" /\ wk'[i] = Gone) => closed]_vars

\* C18: create-backup X invoked when an object exists at X/ exits 1, having
\* issued no SQL statement and having written or overwritten no object.
C18_ExistingBackupRefused ==
  (cmd.op = "create" /\ runs = 1 /\ Has(pre, backupKey(cmd.name))) =>
    /\ store = pre
    /\ ev \cap {"startOK", "startFail"} = {}
    /\ ~db.backup
    /\ pc = "done" => exit = 1

\* C19: delete-backup X whose GetString(X/) fails, as it does when the backup
\* is missing, exits 1 with no side effects: no worker is spawned, no object is
\* deleted and LATEST is not written.
C19_MissingBackupNotDeleted ==
  (cmd.op = "delete" /\ runs = 1
     /\ (~Has(pre, backupKey(cmd.name)) \/ "missing" \in ev)) =>
    /\ pc \in {"d_check", "done"}
    /\ \A i \in Workers : wk[i] = Off
    /\ store = pre
    /\ pc = "done" => (exit = 1 /\ "missing" \in ev)

\* delete-backup b2 on the bucket holding b0 and b1 has returned
C19_Witness ==
  /\ DeleteDone /\ "missing" \in ev /\ exit = 1
  /\ pre = Seed2 /\ cmd.name = B2 /\ ~Has(pre, backupKey(B2))
  /\ store = Seed2 /\ LatestIs(store, B1)

\* C20: restore-backup X for a name X with no folder marker and no object
\* under X/ exits 1 and leaves the data directory as it was.
C20_MissingBackupNotRestored ==
  (RestoreDone /\ Under(pre, backupKey(cmd.name)) = {}) =>
    (exit = 1 /\ rd = rd0)

\* C21: restore-backup with the backup name LATEST first replaces the name by
\* the body of the LATEST object, and walks that backup; when no LATEST
\* object exists it exits 1 before spawning any worker, listing any prefix or
\* touching the data directory.
C21_LatestResolvedFirst ==
  [][(cmd.op = "restore" /\ cmd.name = latestKey /\ pc = "r_resolve") =>
       IF Has(store, latestKey) /\ pc' = "r_walk"
       THEN /\ cmd'.name = store[latestKey].body
            /\ todo' = WalkFolder(store, backupKey(store[latestKey].body))
            /\ rd' = rd
       ELSE /\ ~Has(store, latestKey) => (pc' = "done" /\ exit' = 1)
            /\ pc' = "done" => exit' = 1
            /\ \A i \in Workers : wk'[i] = Off
            /\ todo' = <<>> /\ gets' = {} /\ rd' = rd0 /\ store' = pre]_vars

\* restore-backup LATEST on the empty bucket, over a directory restored
\* earlier, has returned
C21_Witness ==
  /\ RestoreDone /\ cmd.name = latestKey /\ "noLatest" \in ev
  /\ pre = EmptyStore /\ ~Has(pre, latestKey)
  /\ exit = 1 /\ rd0 = Dir2 /\ rd = Dir2 /\ gets = {}
  /\ \A i \in Workers : wk[i] = Off

ArchiveDone == cmd.op = "archive-wal" /\ pc = "done"
RestoreWalDone == cmd.op = "restore-wal" /\ pc = "done"
\* WAL/<basename>.lz4
WalKeyOf(path) == <<"WAL", "/">> \o Base(path) \o <<".lz4">>

\* C22: archive-wal returns 0 only if the compressed segment was stored at
\* WAL/<basename(walPath)>.lz4, so that the body at that key decompresses to
\* the original segment; an error in path resolution, compression or upload
\* yields exit 1.
C22_ArchivedIffStored ==
  ArchiveDone =>
    /\ exit \in {0, 1}
    /\ exit = 0 =>
         /\ Has(store, WalKeyOf(cmd.walPath))
         /\ IsFrame(store[WalKeyOf(cmd.walPath)].body)
         /\ Decompress(store[WalKeyOf(cmd.walPath)].body) = fs[cmd.walPath].c
         /\ WalKeyOf(cmd.walPath) \in puts
    /\ ev \cap {"pathErr", "compressErr", "putErr"} # {} =>
         (exit = 1 /\ store = pre)

\* archive-wal pg_xlog/w on the bucket holding b0 has returned 0
C22_Witness ==
  /\ ArchiveDone /\ exit = 0 /\ cmd.walPath = P_wal /\ pre = Seed1
  /\ store[<<"WAL", "/", "w", ".lz4">>].body = Compress(<<"w">>)
  /\ DOMAIN store = DOMAIN Seed1 \cup {<<"WAL", "/", "w", ".lz4">>}

\* the files of the cluster archive-wal stored under the key
ArchivedAs(key) == {p \in ArchivePaths \cap DOMAIN fs : WalKeyOf(p) = key}

\* C23: archive-wal of a segment file followed by a restore-wal whose
\* --wal-filename is the segment's basename, both returning 0, leaves at
\* walPath a file with the content of the segment.
C23_WalRoundTrip ==
  (RestoreWalDone /\ exit = 0 /\ ~MatchHistory(cmd.name)
     /\ WalKeyOf(cmd.name) \in puts) =>
    /\ ArchivedAs(WalKeyOf(cmd.name)) # {}
    /\ cmd.walPath \in DOMAIN rd
    /\ \A p \in ArchivedAs(WalKeyOf(cmd.name)) :
         /\ Base(p) = cmd.name
         /\ rd[cmd.walPath].c = fs[p].c

\* archive-wal pg_xlog/w, then restore-wal w pg_xlog/RECOVERYXLOG into the
\* directory restore-backup filled: both returned 0
C23_Witness ==
  /\ RestoreWalDone /\ exit = 0 /\ runs = 2 /\ cmd.name = <<"w">>
  /\ <<"WAL", "/", "w", ".lz4">> \in puts
  /\ rd0 = Dir1 /\ P_recovery \notin DOMAIN rd0
  /\ rd[P_recovery].c = <<"w">> /\ fs[P_wal].c = <<"w">>
  /\ tmp = {}

\* the whole name is digits followed by ".history"
IsHistoryName(name) ==
  Len(name) = 2 /\ name[1] \in {"0", "1", "2", "3", "4", "5", "6", "7", "8", "9"}
    /\ name[2] = ".history"
\* a restore-wal for a history file takes its step
HistoryStep == cmd.op = "restore-wal" /\ IsHistoryName(cmd.name) /\ pc = "w_path"

\* C24, as stated: restore-wal invoked with a wal-filename that matches
\* [0-9]+\.history returns 0 without issuing any storage call, creating any
\* temporary file or writing walPath.
C24_HistoryIgnored ==
  [][HistoryStep =>
       /\ pc' = "done" /\ exit' = 0
       /\ UNCHANGED <<store, rd, tmp, gets>>]_vars

\* C24, amended: restore-wal invoked with a wal-filename that matches
\* [0-9]+\.history issues no storage call, creates no temporary file and does
\* not write walPath; it returns 0, or 1 when the working directory cannot be
\* resolved.
C24_HistoryIgnoredOnceResolved ==
  [][HistoryStep =>
       /\ pc' = "done" /\ exit' \in {0, 1}
       /\ exit' = 1 <=> "pathErr" \in ev'
       /\ exit' = 0 <=> "history" \in ev'
       /\ UNCHANGED <<store, rd, tmp, gets>>]_vars

\* restore-wal 2.history has returned 0 although the history file was
\* archived before
C24_Witness ==
  /\ RestoreWalDone /\ cmd.name = <<"2", ".history">> /\ exit = 0
  /\ "history" \in ev /\ runs = 2
  /\ <<"WAL", "/", "2", ".history", ".lz4">> \in puts
  /\ Has(store, <<"WAL", "/", "2", ".history", ".lz4">>)
  /\ gets = {} /\ rd = rd0 /\ tmp = {} /\ store = pre

\* C25: when Get of the WAL object fails restore-wal exits 1 and does not
\* create or modify the file at walPath; on every exit path after the
\* temporary file was created the temporary file is deleted and the exit
\* status is 0 or 1.
C25_RestoreWalFailsCleanly ==
  /\ (RestoreWalDone /\ "getFail" \in ev) => (exit = 1 /\ rd = rd0)
  /\ (RestoreWalDone /\ gets # {}) => (TmpOf(cmd) \notin tmp /\ exit \in {0, 1})

ReservedNames == {latestKey, successfullyCompletedFolder, walFolder}

\* C26: the reserved names LATEST, successful and WAL are never accepted as
\* the backup name of create-backup or delete-backup, and the rows of
\* list-backups never show the reserved prefixes successful/ and WAL/.
C26_ReservedNamesRefused ==
  /\ cmd.op \in {"create", "delete"} => cmd.name \notin ReservedNames
  /\ \A r \in ListRows(store) :
       r.name \notin {successfullyCompletedFolder, walFolder}

\* a worker takes a step of its own
WorkerStep == \E i \in Workers : wk[i].st \in {"recv", "busy"} /\ wk'[i] # wk[i]

\* C27: in non-exclusive mode the connection pg_start_backup was issued on is
\* not closed before pg_stop_backup(false) has returned on that same
\* connection, and no worker uses it; in exclusive mode pg_stop_backup() is
\* issued on a new connection.
C27_ConnectionKeptUntilStop ==
  [][/\ (cmd'.op = "create" /\ "startOK" \in ev' /\ pc' # "done") =>
          /\ (~cmd'.excl /\ "stopOK" \notin ev') => db'.conn = "open"
          /\ (~cmd'.excl /\ "stopOK" \in ev') => db'.stopOn = "same"
          /\ (cmd'.excl /\ "stopOK" \in ev') => db'.stopOn = "new"
          /\ (cmd'.excl /\ "stopOK" \notin ev') => db'.conn = "closed"
     /\ (cmd.op = "create" /\ cmd' = cmd /\ WorkerStep /\ pc' = pc) => db' = db]_vars

\* a non-exclusive create-backup has uploaded files and pg_stop_backup(false)
\* has returned on the connection of pg_start_backup
C27_Witness ==
  /\ cmd.op = "create" /\ ~cmd.excl /\ pc = "c_label"
  /\ "stopOK" \in ev /\ "joined" \in ev /\ puts # {}
  /\ db.stopOn = "same" /\ db.conn = "closed" /\ ~db.backup

\* C28: every temporary file created in tmpDir by a backup worker is deleted
\* before the worker takes its next item or the command returns, whether the
\* compression and the upload succeed or fail.
C28_TempFilesRemoved ==
  (cmd.op = "create" /\ \A i \in Workers : wk[i].st # "busy") => tmp = {}

\* the relative path begins with pg_xlog, postmaster.pid or pg_replslot
NotToBackup(rel) ==
  IF rel = <<>> THEN FALSE ELSE rel[1] \in {"pg_xlog", "postmaster.pid", "pg_replslot"}

\* C29: create-backup X never writes an object for a path whose form relative
\* to the data directory begins with pg_xlog, postmaster.pid or pg_replslot,
\* and every other path reached by the walk is pushed on the channel as a
\* path relative to the data directory.
C29_FilteredNeverUploaded ==
  [][(cmd.op = "create" /\ cmd' = cmd) =>
       /\ \A k \in puts' :
            HasPrefix(k, Join(cmd.name, <<>>)) =>
              ~NotToBackup(TrimPrefix(k, cmd.name \o <<Slash>>))
       /\ \A i \in Workers :
            wk'[i].st = "busy" =>
              wk'[i].item \in DOMAIN DataDirectory /\ ~NotToBackup(wk'[i].item)
       /\ (pc = "c_walk" /\ pc' = "c_walk" /\ todo # <<>> /\ todo' = Tail(todo)) =>
            IF Head(todo) \in DOMAIN fs /\ ~NotToBackup(Head(todo))
            THEN \E i \in Workers :
                   wk[i].st = "recv" /\ wk'[i] = Busy(Head(todo))
            ELSE wk' = wk]_vars

\* the walk went through pg_xlog and the other files were uploaded
C29_Witness ==
  /\ cmd.op = "create" /\ pc = "c_label" /\ "walkErr" \notin ev
  /\ Join(cmd.name, P_f2) \o LZ4Extension \in puts
  /\ Join(cmd.name, P_z) \in puts
  /\ P_wal \in DOMAIN fs

\* the object a backup worker has just stored for the file at rel
StoredAs(rel, key, body) ==
  /\ puts' = puts \cup {key} /\ key \notin puts
  /\ store'[key].body = body
  /\ GetLastModifiedTime(store', key) = fs[rel].mt

\* C30: a backup worker compresses a file and stores it under X/<relpath>.lz4
\* if and only if the file's size is strictly greater than compressThreshold;
\* a file of exactly compressThreshold bytes is uploaded uncompressed under
\* X/<relpath>; in both cases with the source file's mtime.
C30_CompressAboveThreshold ==
  [][(cmd.op = "create" /\ cmd' = cmd /\ pc \in {"c_walk", "c_join"} /\ pc' = pc
        /\ puts' # puts) =>
       \E i \in Workers :
         /\ wk[i].st = "busy" /\ wk'[i] = Recv
         /\ LET rel == wk[i].item
                key == cmd.name \o <<Slash>> \o rel
            IN IF fs[rel].size > cmd.thr
               THEN StoredAs(rel, key \o <<".lz4">>, <<"lz4">> \o fs[rel].c)
               ELSE StoredAs(rel, key, fs[rel].c)]_vars

\* a file of exactly the threshold was uploaded as it is and a larger one
\* compressed
C30_Witness ==
  /\ cmd.op = "create" /\ cmd.thr = DataDirectory[P_f1].size
  /\ Join(cmd.name, P_f1) \in puts
  /\ store[Join(cmd.name, P_f1)].body = DataDirectory[P_f1].c
  /\ Join(cmd.name, P_f2) \o LZ4Extension \in puts
  /\ store[Join(cmd.name, P_f2) \o LZ4Extension].body = Compress(DataDirectory[P_f2].c)

\* list-backups has run
Listed == out.code # -1
\* the lines below the header
Rows == Tail(out.rows)
\* the root-level prefixes that are not reserved, without the separator
Listable(st) ==
  {TrimSuffix(k, <<Slash>>) : k \in ListFolder(st, <<>>)} \ {walFolder, successfullyCompletedFolder}
\* the modified-time of the folder marker of a backup, 0 without one
MarkerTime(st, name) ==
  IF Has(st, backupKey(name)) THEN GetLastModifiedTime(st, backupKey(name)) ELSE 0

\* C31: list-backups prints exactly one row per root-level prefix that is not
\* reserved, in non-decreasing order of folder-marker modified-time, and
\* returns 0; after a successful create-backup X the listing contains X, and
\* after a successful delete-backup X it no longer contains X.
C31_OneRowPerBackup ==
  Listed =>
    /\ out.code = 0
    /\ {Rows[i].name : i \in DOMAIN Rows} = Listable(store)
    /\ \A i, j \in DOMAIN Rows : i # j => Rows[i].name # Rows[j].name
    /\ \A i, j \in DOMAIN Rows :
         i < j => MarkerTime(store, Rows[i].name) <= MarkerTime(store, Rows[j].name)
    /\ (cmd.op = "create" /\ exit = 0) => \E i \in DOMAIN Rows : Rows[i].name = cmd.name
    /\ (cmd.op = "delete" /\ exit = 0 /\ failed = {}) =>
          \A i \in DOMAIN Rows : Rows[i].name # cmd.name

\* the row is marked incomplete / tagged as the latest backup
Incomplete(row) == row.status = "(incomplete!) "
Tagged(row) == row.endLine = "(LATEST)"
\* GetString(successful/<name>) failed in the listing: no marker, or the
\* request failed
MarkerUnread(name) ==
  ~Has(store, getSuccessfulMarker(name)) \/ backupKey(name) \in out.failures.mark

\* C32: in the output of list-backups a row carries (incomplete!) if and only
\* if successful/<name> cannot be read, and carries (LATEST) if and only if
\* its name equals the current body of the LATEST object; with no LATEST
\* object no row is tagged.
C32_TagsFollowBucket ==
  Listed =>
    \A i \in DOMAIN Rows :
      /\ Incomplete(Rows[i]) <=> MarkerUnread(Rows[i].name)
      /\ Tagged(Rows[i]) <=>
           (Has(store, latestKey) /\ store[latestKey].body = Rows[i].name)

\* C32 (amended): as C32, the row being tagged (LATEST) if and only if
\* GetString(LATEST) succeeded and returned the row's name.
C32_TagsFollowWhatWasRead ==
  Listed =>
    \A i \in DOMAIN Rows :
      /\ Incomplete(Rows[i]) <=> MarkerUnread(Rows[i].name)
      /\ Tagged(Rows[i]) <=>
           (/\ Has(store, latestKey) /\ ~out.failures.latest
            /\ store[latestKey].body = Rows[i].name)

\* a listing in which the tagged row is not the last one, the last one is
\* incomplete for want of a marker and another is complete
C32_Witness ==
  /\ Listed /\ Len(Rows) = 2
  /\ Tagged(Rows[1]) /\ ~Incomplete(Rows[1])
  /\ ~Tagged(Rows[2]) /\ Incomplete(Rows[2])
  /\ out.failures.mark = {}

\* the elements of a sequence
Range(seq) == {seq[i] : i \in DOMAIN seq}
\* the sequence sends no key twice
NoRepeat(seq) == \A i, j \in DOMAIN seq : i # j => seq[i] # seq[j]
\* the object keys below the folder, the folder's own key left out
Below(st, folder) == {k \in DOMAIN st : HasPrefix(k, folder)} \ {folder}

\* C33: a WalkFolder(prefix, sink) that returns without error has sent on
\* sink every object key under prefix at every depth, across all continuation
\* pages, each exactly once, and has never sent the key of the folder being
\* listed.
C33_WalkSendsEveryKeyOnce ==
  [][(cmd.op = "delete" /\ cmd' = cmd) =>
       /\ (pc = "d_check" /\ pc' = "d_walk") =>
            /\ Range(todo') = Below(store, backupKey(cmd.name))
            /\ NoRepeat(todo')
            /\ backupKey(cmd.name) \notin Range(todo')
       /\ (pc = "d_walk" /\ pc' = "d_walk" /\ todo' # todo) =>
            /\ \E i \in Workers : wk'[i] = Busy(Head(todo))
            /\ todo' = Tail(todo)
       /\ (pc = "d_walk" /\ pc' = "d_join") => todo = <<>>]_vars

\* a walk over more than one page and more than one level has returned
\* without error
C33_Witness ==
  /\ cmd.op = "delete" /\ pc = "d_join" /\ "walkErr" \notin ev
  /\ Len(WalkFolder(pre, backupKey(cmd.name))) > PageSize
  /\ \E k \in Below(pre, backupKey(cmd.name)) :
       FirstSlash(TrimPrefix(k, backupKey(cmd.name)), 1) > 0
  /\ backupKey(cmd.name) \in DOMAIN pre

\* C34: IsCompressed(key) is a total pure suffix test: for every key,
\* including keys shorter than the extension, it returns true exactly when
\* the key ends with .lz4 and false otherwise, without failing.
C34_IsCompressedTotal ==
  (cmd.op = "IsCompressed" /\ pc = "done") =>
    /\ "panic" \notin ev
    /\ "true" \in ev <=> HasSuffix(cmd.name, <<".lz4">>)
    /\ "false" \in ev <=> ~HasSuffix(cmd.name, <<".lz4">>)

\* the producer is walking / the step is the join returning
Walking == pc \in {"c_walk", "d_walk", "r_walk"}
JoinReturns == "joined" \notin ev /\ "joined" \in ev'
\* the workers whose state the step changes
Changed == {i \in Workers : wk'[i] # wk[i]}

\* C35: in create-backup, restore-backup and delete-backup each item the
\* producer sends on the work channel is received and processed by exactly
\* one worker, and at the moment the join returns every sent item has been
\* completely processed and every worker has returned.
C35_OneWorkerPerItem ==
  [][(cmd.op \in {"create", "restore", "delete"} /\ cmd' = cmd /\ pc' # "done") =>
       /\ (Walking /\ pc' = pc /\ todo' # todo /\ wk' # wk) =>
            \E i \in Workers :
              /\ Changed = {i} /\ wk[i] = Recv /\ wk'[i].st = "busy"
              /\ \A j \in Workers : wk[j].st = "busy" => wk[j].item # wk'[i].item
       /\ (todo' = todo /\ wk' # wk /\ wk # [i \in Workers |-> Off]) =>
            \E i \in Workers :
              /\ Changed = {i}
              /\ \/ wk[i].st = "busy" /\ wk'[i] \in {Recv, Gone}
                 \/ wk[i] = Recv /\ wk'[i] = Gone /\ closed
       /\ JoinReturns =>
            /\ closed /\ todo = <<>>
            /\ \A i \in Workers : i <= cmd.nW => wk[i] = Gone]_vars

\* two workers shared the keys of a restore that has joined
C35_Witness ==
  /\ cmd.op = "restore" /\ cmd.nW = 2 /\ "joined" \in ev
  /\ Cardinality(gets) > 2
  /\ \A i \in Workers : wk[i] = Gone

\* the first process has passed the existence check
FirstPassed ==
  cmd.op = "create" /\ runs = 1 /\ pc # "c_check" /\ "exists" \notin ev

\* C36: when two create-backup X invocations with the same name run
\* concurrently against the same store, at most one of them passes the
\* existence check and uploads objects under X/; the other exits 1 without
\* writing.
C36_OnlyOneCreates ==
  (clean /\ other.clean) =>
    /\ ~(FirstPassed /\ other.passed)
    /\ (FirstPassed /\ other.pc = "done") => (other.exit = 1 /\ other.wrote = {})

\* C37: at every intermediate state of delete-backup X, including the state
\* left when it stops early because the traversal or the folder-marker
\* Delete fails, if successful/X exists then every file object uploaded by
\* create-backup X still exists.
C37_MarkerNeverOutlivesFiles ==
  (cmd.op = "delete" /\ runs = 1 /\ Has(pre, getSuccessfulMarker(cmd.name))
     /\ Has(store, getSuccessfulMarker(cmd.name))) =>
    \A k \in Below(pre, backupKey(cmd.name)) : Has(store, k)

\* the content create-backup stored for the key, as restore-backup is to
\* write it
ContentOf(st, key) ==
  IF IsCompressed(key) THEN Decompress(st[key].body) ELSE st[key].body

\* C38: a restore worker sets a local file's mtime to the stored
\* Modified_time only after the object's content was downloaded (and, for
\* .lz4 keys, decompressed) successfully; therefore a later restore-backup
\* --modified-only never skips a file whose local content differs from the
\* backup because an earlier restore of it failed.
C38_MtimeOnlyAfterContent ==
  cmd.op = "restore" =>
    \A g \in gets :
      LET key == g[1]
          file == TrimSuffix(TrimPrefix(key, backupKey(cmd.name)), LZ4Extension)
          mtime == GetLastModifiedTime(store, key)
      IN (/\ IsCompressed(key) => IsFrame(store[key].body)
          /\ file \in DOMAIN rd
          /\ fileHasNotChanged(rd, file, mtime, FALSE)) =>
           rd[file].c = ContentOf(store, key)

\* C39: restore-backup decompresses an object if and only if create-backup
\* compressed it: for every file of the data directory, including a file
\* whose own name ends in .lz4 and whose size is at most compressThreshold,
\* the restored file has the original relative path and the original
\* content.
C39_DecompressIffCompressed ==
  cmd.op = "restore" =>
    \A g \in gets :
      LET key == g[1]
          p == TrimPrefix(key, backupKey(cmd.name))
      IN /\ IsCompressed(key) <=> IsFrame(store[key].body)
         /\ (p \in DOMAIN DataDirectory /\ "getFail" \notin ev /\ nfail = 0) =>
              (p \in DOMAIN rd /\ rd[p].c = DataDirectory[p].c)
====
